---- MODULE Spec2Model ----
(***************************************************************************)
(* State engine of the UNOTE dashboard (App component): widget tree,       *)
(* per-breakpoint grid layouts, placement scan, serialization sanitizer,   *)
(* undo history and the remote project document.                           *)
(*                                                                         *)
(* JavaScript objects are modelled as functions whose DOMAIN is the set of *)
(* keys that are present with a defined value: an absent key and a key     *)
(* holding `undefined` are the same thing here.  `null` is the string      *)
(* NullV, widget ids are the strings of WidgetIds, handed out in order by  *)
(* a counter (uuidv4 never repeats an id).                                 *)
(***************************************************************************)
EXTENDS Integers, Sequences, FiniteSets, TLC

VARIABLES
    store,            \* remote documents: project id -> project document
    projects,         \* local project list, as the last snapshot delivered it
    activeProjectId,  \* id of the active project, or NullV
    history,          \* undo stack: sequence of [projectId, projectState]
    nextId,           \* number of ids uuidv4 has handed out so far, plus one
    pushed,           \* ghost: every entry ever appended to history, in order
    log,              \* ghost: the operations invoked so far, in order
    fuel,             \* ghost: operations the run may still invoke
    pre,              \* ghost: the local active project at each mutation invoked since Init
    inp,              \* argument of the pure function under check
    out,              \* its result
    pc,               \* "start" before the function is applied, "done" after
    tabs,             \* browser tabs of the user: tab -> project list, active id, calls in flight
    signup,           \* "pending" while register has still to create its project
    created,          \* ghost: ids of the default projects addDoc created, in order
    calls             \* handleUndo invocations whose updateDoc has not settled yet, in order

appVars == <<store, projects, activeProjectId, history, nextId, pushed>>
ghostVars == <<log, fuel, pre>>
pureVars == <<inp, out, pc>>
projVars == <<tabs, signup, created, calls>>
vars == <<store, projects, activeProjectId, history, nextId, pushed, log, fuel, pre, inp, out, pc,
          tabs, signup, created, calls>>

(***************************************************************************)
(* Generic helpers                                                         *)
(***************************************************************************)
Empty == [k \in {} |-> k]
NullV == "null"
Has(r, f) == f \in DOMAIN r
Opt(c, f, v) == IF c THEN f :> v ELSE Empty
Range(s) == {s[k] : k \in DOMAIN s}
Max(a, b) == IF a > b THEN a ELSE b
Min(a, b) == IF a < b THEN a ELSE b
\* JavaScript truthiness of a string-or-null value
TruthyStr(v) == v # "" /\ v # NullV

(***************************************************************************)
(* Grid constants                                                          *)
(***************************************************************************)
BPs == <<"lg", "md", "sm", "xs", "xxs">>
BPSet == Range(BPs)
GRID_COLS == [lg |-> 12, md |-> 10, sm |-> 6, xs |-> 2, xxs |-> 1]
NESTED_GRID_COLS == [lg |-> 24, md |-> 20, sm |-> 12, xs |-> 4, xxs |-> 2]
MAX_HISTORY_LENGTH == 20
\* the scan gives up after the row with this index
SCAN_ROW_LIMIT == 200
\* rows the model scans per step of the unrolled row loop
ScanBlock == 16

(***************************************************************************)
(* Placement scan                                                          *)
(***************************************************************************)
\* mutant of isColliding: only the item's origin cell is tested
isCollidingOriginOnly(item, items) ==
    \E k \in DOMAIN items :
        /\ item.x < items[k].x + items[k].w
        /\ item.x >= items[k].x
        /\ item.y < items[k].y + items[k].h
        /\ item.y >= items[k].y

isColliding(item, items) ==
    \E k \in DOMAIN items :
        /\ item.x < items[k].x + items[k].w
        /\ item.x + item.w > items[k].x
        /\ item.y < items[k].y + items[k].h
        /\ item.y + item.h > items[k].y

\* mutant of maxBottom: the fallback row is the largest y, not the largest y + h
RECURSIVE maxTopRec(_, _)
maxTopRec(layout, k) ==
    IF k > Len(layout) THEN 0
    ELSE Max(layout[k].y, maxTopRec(layout, k + 1))
maxTop(layout) == maxTopRec(layout, 1)

\* let maxY = 0; layout.forEach(l => { maxY = Math.max(maxY, l.y + l.h); })
RECURSIVE maxBottomRec(_, _)
maxBottomRec(layout, k) ==
    IF k > Len(layout) THEN 0
    ELSE Max(layout[k].y + layout[k].h, maxBottomRec(layout, k + 1))
maxBottom(layout) == maxBottomRec(layout, 1)

\* mutant of scanX: a row is scanned right to left, the last free cell of the row is taken
RECURSIVE scanXLast(_, _, _, _, _)
scanXLast(x, y, item, layout, gridWidth) ==
    LET rest == IF x > gridWidth - item.w THEN -1
                ELSE scanXLast(x + 1, y, item, layout, gridWidth)
    IN  IF x > gridWidth - item.w THEN -1
        ELSE IF rest >= 0 THEN rest
        ELSE IF ~isColliding([x |-> x, y |-> y, w |-> item.w, h |-> item.h], layout) THEN x
        ELSE -1

\* mutant of scanX: the loop stops one column early (x < gridWidth - w)
RECURSIVE scanXStrict(_, _, _, _, _)
scanXStrict(x, y, item, layout, gridWidth) ==
    IF x >= gridWidth - item.w THEN -1
    ELSE IF ~isColliding([x |-> x, y |-> y, w |-> item.w, h |-> item.h], layout) THEN x
    ELSE scanXStrict(x + 1, y, item, layout, gridWidth)

\* inner loop: for (let x = 0; x <= gridWidth - w; x++); -1 when the row has no free cell
RECURSIVE scanX(_, _, _, _, _)
scanX(x, y, item, layout, gridWidth) ==
    IF x > gridWidth - item.w THEN -1
    ELSE IF ~isColliding([x |-> x, y |-> y, w |-> item.w, h |-> item.h], layout) THEN x
    ELSE scanX(x + 1, y, item, layout, gridWidth)

\* outer loop: for (let y = 0; !positionFound; y++) { ...; if (y > 200) { fallback; break } }
\* The y > 200 test runs after the inner loop in every iteration, also when row y had a
\* free cell: rows 0..200 can be returned, a cell found in row 201 is overwritten by
\* the fallback.  The loop is unrolled in blocks of ScanBlock rows to keep the
\* evaluation shallow: firstFreeRow is the first y in y..last with a free cell, or -1.
RECURSIVE firstFreeRow(_, _, _, _, _)
firstFreeRow(y, last, item, layout, gridWidth) ==
    IF y > last THEN -1
    ELSE IF scanX(0, y, item, layout, gridWidth) >= 0 THEN y
    ELSE firstFreeRow(y + 1, last, item, layout, gridWidth)

RECURSIVE scanY(_, _, _, _)
scanY(y, item, layout, gridWidth) ==
    LET fy == firstFreeRow(y, Min(y + ScanBlock - 1, SCAN_ROW_LIMIT), item, layout, gridWidth) IN
    IF y > SCAN_ROW_LIMIT THEN [x |-> 0, y |-> maxBottom(layout)]
    ELSE IF fy >= 0 THEN [x |-> scanX(0, fy, item, layout, gridWidth), y |-> fy]
    ELSE scanY(y + ScanBlock, item, layout, gridWidth)

\* the placement scan of handleAddWidget / handleCopyWidget
place(item, layout, gridWidth) == scanY(0, item, layout, gridWidth)

(***************************************************************************)
(* Serialization sanitizer                                                 *)
(***************************************************************************)
\* mutant of cleanLayoutItem: minW is copied from minH and minH from minW
cleanLayoutItemSwapped(l) ==
    [i |-> l.i, x |-> l.x, y |-> l.y, w |-> l.w, h |-> l.h]
        @@ Opt(Has(l, "minW") /\ l.minW # 0 /\ Has(l, "minH"), "minW", l.minH)
        @@ Opt(Has(l, "minH") /\ l.minH # 0 /\ Has(l, "minW"), "minH", l.minW)
        @@ Opt(Has(l, "maxW") /\ l.maxW # 0, "maxW", l.maxW)
        @@ Opt(Has(l, "maxH") /\ l.maxH # 0, "maxH", l.maxH)
        @@ Opt(Has(l, "isDraggable"), "isDraggable", l.isDraggable)
        @@ Opt(Has(l, "isResizable"), "isResizable", l.isResizable)
        @@ Opt(Has(l, "static") /\ l.static, "static", TRUE)

cleanLayoutItem(l) ==
    [i |-> l.i, x |-> l.x, y |-> l.y, w |-> l.w, h |-> l.h]
        @@ Opt(Has(l, "minW") /\ l.minW # 0, "minW", l.minW)
        @@ Opt(Has(l, "minH") /\ l.minH # 0, "minH", l.minH)
        @@ Opt(Has(l, "maxW") /\ l.maxW # 0, "maxW", l.maxW)
        @@ Opt(Has(l, "maxH") /\ l.maxH # 0, "maxH", l.maxH)
        @@ Opt(Has(l, "isDraggable"), "isDraggable", l.isDraggable)
        @@ Opt(Has(l, "isResizable"), "isResizable", l.isResizable)
        @@ Opt(Has(l, "static") /\ l.static, "static", TRUE)

cleanAllLayouts(allLayouts) ==
    [bp \in DOMAIN allLayouts |->
        [k \in DOMAIN allLayouts[bp] |-> cleanLayoutItem(allLayouts[bp][k])]]

\* const dataCopy = { ...w.data }; a folder's childrenLayouts are cleaned when present
cleanWidgetData(w) ==
    IF w.type = "folder" /\ Has(w.data, "childrenLayouts")
    THEN [w.data EXCEPT !.childrenLayouts = cleanAllLayouts(w.data.childrenLayouts)]
    ELSE w.data

cleanWidget(w) ==
    [id |-> w.id, type |-> w.type, data |-> cleanWidgetData(w), minW |-> w.minW, minH |-> w.minH]
        @@ Opt(Has(w, "parentId") /\ TruthyStr(w.parentId), "parentId", w.parentId)
        @@ Opt(Has(w, "assignedUser"), "assignedUser", w.assignedUser)

cleanProjectForSerialization(project) ==
    [ id |-> project.id,
      name |-> project.name,
      emoji |-> project.emoji,
      owner_uid |-> project.owner_uid,
      member_uids |-> project.member_uids,
      participant_uids |-> project.participant_uids,
      isTeamProject |-> project.isTeamProject,
      widgets |-> [k \in DOMAIN project.widgets |-> cleanWidget(project.widgets[k])],
      layouts |-> cleanAllLayouts(project.layouts) ]

\* JSON.parse(JSON.stringify(v)) on a payload scalar: NaN is written as null
jsonScalar(v) == IF v = "NaN" THEN NullV ELSE v

jsonWidget(w) ==
    IF Has(w.data, "current")
    THEN [w EXCEPT !.data = [w.data EXCEPT !.current = jsonScalar(w.data.current)]]
    ELSE w

jsonRoundTrip(project) ==
    [project EXCEPT !.widgets = [k \in DOMAIN project.widgets |-> jsonWidget(project.widgets[k])]]

\* the value safeDeepClone returns for a missing project or when cleaning throws
NullProject == [null |-> TRUE]

\* cleanProjectForSerialization throws (TypeError) when project.widgets or
\* project.layouts is not there to be mapped
cleanThrows(project) == ~Has(project, "widgets") \/ ~Has(project, "layouts")

safeDeepClone(project) ==
    IF project = NullProject THEN NullProject
    ELSE IF cleanThrows(project) THEN NullProject
    ELSE jsonRoundTrip(cleanProjectForSerialization(project))

(***************************************************************************)
(* Widget defaults (constants.ts)                                          *)
(***************************************************************************)
WidgetTypes == {"folder", "plan", "line"}
WIDGET_DEFAULTS ==
    [ folder |-> [w |-> 6, h |-> 4, minW |-> 4, minH |-> 2,
                  data |-> [title |-> "folder", isCollapsed |-> FALSE]],
      plan   |-> [w |-> 4, h |-> 2, minW |-> 4, minH |-> 2,
                  data |-> [title |-> "plan", current |-> "0"]],
      line   |-> [w |-> 6, h |-> 3, minW |-> 6, minH |-> 3,
                  data |-> [title |-> "line", deps |-> <<>>]] ]

\* ids uuidv4 returns, in the order it returns them
WidgetIds ==
    << "w1", "w2", "w3", "w4", "w5", "w6", "w7", "w8", "w9", "w10", "w11", "w12",
       "w13", "w14", "w15", "w16" >>
ProjectIds == <<"p1", "p2", "p3", "p4", "p5", "p6", "p7", "p8">>
user == "u1"

(***************************************************************************)
(* Client state as one record, so that handlers compose                    *)
(***************************************************************************)
Cur ==
    [ store |-> store, projects |-> projects, activeProjectId |-> activeProjectId,
      history |-> history, nextId |-> nextId, pushed |-> pushed ]

Becomes(S) ==
    /\ store' = S.store
    /\ projects' = S.projects
    /\ activeProjectId' = S.activeProjectId
    /\ history' = S.history
    /\ nextId' = S.nextId
    /\ pushed' = S.pushed

\* projects.find(p => p.id === activeProjectId)
activeProject(S) ==
    LET idx == {k \in DOMAIN S.projects : S.projects[k].id = S.activeProjectId} IN
    IF idx = {} THEN NullProject
    ELSE S.projects[CHOOSE k \in idx : \A j \in idx : k <= j]

currentUserRole(S) ==
    LET ap == activeProject(S) IN
    IF ap = NullProject THEN NullV
    ELSE IF ap.owner_uid = user THEN "owner"
    ELSE IF Has(ap.member_uids, user) THEN ap.member_uids[user]
    ELSE NullV

isEditableOverall(S) == currentUserRole(S) \in {"owner", "editor", "manager"}
canAddWidgets(S) == currentUserRole(S) \in {"owner", "editor"}

\* widgets.findIndex(w => w.id === id), 0 when there is none
findIndex(widgets, id) ==
    LET idx == {k \in DOMAIN widgets : widgets[k].id = id} IN
    IF idx = {} THEN 0 ELSE CHOOSE k \in idx : \A j \in idx : k <= j

\* layout.find(l => l.i === id) as an index, 0 when there is none
findItem(layout, id) ==
    LET idx == {k \in DOMAIN layout : layout[k].i = id} IN
    IF idx = {} THEN 0 ELSE CHOOSE k \in idx : \A j \in idx : k <= j

(***************************************************************************)
(* History                                                                 *)
(***************************************************************************)
\* mutant of appendCapped: when full, the newest entry is dropped instead of the oldest
appendCappedDropNewest(prev, entry) ==
    LET newHistory == Append(prev, entry) IN
    IF Len(newHistory) > MAX_HISTORY_LENGTH
    THEN SubSeq(newHistory, 1, Len(newHistory) - 1)
    ELSE newHistory

\* the setHistory updater of pushStateToHistory
appendCapped(prev, entry) ==
    LET newHistory == Append(prev, entry) IN
    IF Len(newHistory) > MAX_HISTORY_LENGTH THEN Tail(newHistory) ELSE newHistory

\* mutant of pushStateToHistory: a project that cannot be cloned is pushed as it is
pushStateToHistoryUnguarded(S) ==
    LET ap == activeProject(S)
        clonedState == safeDeepClone(ap)
        entry == [projectId |-> ap.id,
                  projectState |-> IF clonedState = NullProject THEN ap ELSE clonedState]
    IN  IF ap = NullProject THEN S
        ELSE [S EXCEPT !.history = appendCapped(@, entry), !.pushed = Append(@, entry)]

\* mutant of pushStateToHistory: the entry is appended twice
pushStateToHistoryTwice(S) ==
    LET ap == activeProject(S)
        clonedState == safeDeepClone(ap)
        entry == [projectId |-> ap.id, projectState |-> clonedState]
    IN  IF ap = NullProject THEN S
        ELSE IF clonedState = NullProject THEN S
        ELSE [S EXCEPT !.history = appendCapped(appendCapped(@, entry), entry),
                       !.pushed = Append(Append(@, entry), entry)]

pushStateToHistory(S) ==
    LET ap == activeProject(S)
        clonedState == safeDeepClone(ap)
        entry == [projectId |-> ap.id, projectState |-> clonedState]
    IN  IF ap = NullProject THEN S
        ELSE IF clonedState = NullProject THEN S
        ELSE [S EXCEPT !.history = appendCapped(@, entry), !.pushed = Append(@, entry)]

\* mutant of updateDoc: widgets of the document that the update does not name are kept
updateDocKeep(S, id, updates) ==
    LET old == S.store[id]
        kept == SelectSeq(old.widgets,
                    LAMBDA w : \A k \in DOMAIN updates.widgets : updates.widgets[k].id # w.id)
        merged == IF Has(updates, "widgets") /\ Has(old, "widgets")
                  THEN [widgets |-> kept \o updates.widgets] ELSE Empty
    IN  IF id \in DOMAIN S.store
        THEN [S EXCEPT !.store[id] = merged @@ updates @@ old]
        ELSE S

\* updateDoc(doc(db, 'projects', id), updates): the named fields are replaced whole;
\* the call rejects when the document does not exist
updateDoc(S, id, updates) ==
    IF id \in DOMAIN S.store
    THEN [S EXCEPT !.store[id] = updates @@ @]
    ELSE S

\* mutant of updateProjectInFirestore: the update is applied to the local list as well
updateProjectInFirestoreOptimistic(S, updates) ==
    LET idx == {k \in DOMAIN S.projects : S.projects[k].id = S.activeProjectId}
        S1 == [S EXCEPT !.projects =
                    [k \in DOMAIN S.projects |->
                        IF k \in idx THEN updates @@ S.projects[k] ELSE S.projects[k]]]
    IN  IF S.activeProjectId = NullV THEN S
        ELSE updateDoc(S1, S.activeProjectId, updates)

updateProjectInFirestore(S, updates) ==
    IF S.activeProjectId = NullV THEN S
    ELSE updateDoc(S, S.activeProjectId, updates)

\* index of the entry [...history].reverse().find(h => h.projectId === activeProjectId)
\* selects, 0 when there is none
lastRelevantIndex(S) ==
    LET idx == {k \in DOMAIN S.history : S.history[k].projectId = S.activeProjectId} IN
    IF idx = {} THEN 0 ELSE CHOOSE k \in idx : \A j \in idx : k >= j

\* mutant of handleUndo: the stack top is applied and popped, whatever project it is of
handleUndoTop(S) ==
    LET k == Len(S.history) IN
    IF Len(S.history) = 0 \/ S.activeProjectId = NullV THEN S
    ELSE IF S.activeProjectId \notin DOMAIN S.store THEN S
    ELSE [updateDoc(S, S.activeProjectId, S.history[k].projectState)
            EXCEPT !.history = SubSeq(S.history, 1, k - 1)]

\* mutant of handleUndo: only the widgets of the snapshot are written back
handleUndoWidgetsOnly(S) ==
    LET k == lastRelevantIndex(S) IN
    IF Len(S.history) = 0 \/ S.activeProjectId = NullV THEN S
    ELSE IF k = 0 THEN S
    ELSE IF S.activeProjectId \notin DOMAIN S.store THEN S
    ELSE [updateDoc(S, S.activeProjectId, [widgets |-> S.history[k].projectState.widgets])
            EXCEPT !.history = SubSeq(S.history, 1, k - 1) \o SubSeq(S.history, k + 1, Len(S.history))]

\* mutant of handleUndo: the membership fields of the snapshot are not written back
handleUndoKeepAccess(S) ==
    LET k == lastRelevantIndex(S)
        ps == S.history[k].projectState
        kept == DOMAIN ps \ {"owner_uid", "member_uids", "participant_uids", "isTeamProject"}
    IN  IF Len(S.history) = 0 \/ S.activeProjectId = NullV THEN S
        ELSE IF k = 0 THEN S
        ELSE IF S.activeProjectId \notin DOMAIN S.store THEN S
        ELSE [updateDoc(S, S.activeProjectId, [f \in kept |-> ps[f]])
                EXCEPT !.history = SubSeq(S.history, 1, k - 1) \o SubSeq(S.history, k + 1, Len(S.history))]

handleUndo(S) ==
    LET k == lastRelevantIndex(S) IN
    IF Len(S.history) = 0 \/ S.activeProjectId = NullV THEN S
    ELSE IF k = 0 THEN S
    ELSE IF S.activeProjectId \notin DOMAIN S.store THEN S
    ELSE [updateDoc(S, S.activeProjectId, S.history[k].projectState)
            EXCEPT !.history = SubSeq(S.history, 1, k - 1) \o SubSeq(S.history, k + 1, Len(S.history))]


(***************************************************************************)
(* Widget tree mutation handlers                                           *)
(***************************************************************************)
\* layout.push({ ...newLayoutItemDefaults, x: newX, y: newY }) after the scan
placeInto(layout, itemDefaults, gridWidth) ==
    Append(layout, place(itemDefaults, layout, gridWidth) @@ itemDefaults)

layoutAt(layouts, bp) == IF bp \in DOMAIN layouts THEN layouts[bp] ELSE <<>>

\* the widget handleAddWidget builds; the random gradient colours of plan and line
\* widgets are left out, the userSetColors mark is kept
newWidgetOf(type, id, parent) ==
    LET defaults == WIDGET_DEFAULTS[type]
        widgetData == IF type \in {"plan", "line"}
                      THEN ("userSetColors" :> FALSE) @@ defaults.data
                      ELSE defaults.data
    IN  [id |-> id, type |-> type, data |-> widgetData,
         minW |-> defaults.minW, minH |-> defaults.minH]
            @@ Opt(TruthyStr(parent), "parentId", parent)

nestedItemDefaults(type, id) ==
    LET defaults == WIDGET_DEFAULTS[type] IN
    [ i |-> id,
      w |-> (IF type = "folder" THEN defaults.w ELSE defaults.minW) * 2,
      h |-> (IF type = "folder" THEN defaults.h ELSE defaults.minH) * 2,
      minW |-> defaults.minW * 2,
      minH |-> defaults.minH * 2 ]

topItemDefaults(type, id, gridWidth) ==
    LET defaults == WIDGET_DEFAULTS[type] IN
    [ i |-> id,
      w |-> Min(IF type = "folder" THEN defaults.w ELSE defaults.minW, gridWidth),
      h |-> IF type = "folder" THEN defaults.h ELSE defaults.minH,
      minW |-> Min(defaults.minW, gridWidth),
      minH |-> defaults.minH ]

\* { ...parentFolder, data: { ...parentFolder.data, childrenLayouts } }
withChildrenLayouts(w, childrenLayouts) ==
    [w EXCEPT !.data = ("childrenLayouts" :> childrenLayouts) @@ w.data]

childrenLayoutsOf(w) ==
    IF Has(w.data, "childrenLayouts") THEN w.data.childrenLayouts ELSE Empty

\* parent is the addWidgetParentId that handleInitiateAddWidget stored (NullV: none)
handleAddWidget(S, type, parent) ==
    LET ap == activeProject(S)
        S1 == pushStateToHistory(S)
        newId == WidgetIds[S.nextId]
        S2 == [S1 EXCEPT !.nextId = @ + 1]
        newWidget == newWidgetOf(type, newId, parent)
        projectCopy == safeDeepClone(ap)
        parentFolderIndex == findIndex(projectCopy.widgets, parent)
        parentFolder == projectCopy.widgets[parentFolderIndex]
        oldChildren == childrenLayoutsOf(parentFolder)
        childrenLayouts ==
            [bp \in BPSet \cup DOMAIN oldChildren |->
                IF bp \in BPSet
                THEN placeInto(layoutAt(oldChildren, bp), nestedItemDefaults(type, newId),
                               NESTED_GRID_COLS[bp])
                ELSE oldChildren[bp]]
        nestedWidgets ==
            [projectCopy.widgets EXCEPT
                ![parentFolderIndex] = withChildrenLayouts(parentFolder, childrenLayouts)]
        newLayouts ==
            [bp \in BPSet \cup DOMAIN projectCopy.layouts |->
                IF bp \in BPSet
                THEN placeInto(layoutAt(projectCopy.layouts, bp),
                               topItemDefaults(type, newId, GRID_COLS[bp]), GRID_COLS[bp])
                ELSE projectCopy.layouts[bp]]
    IN  IF ~canAddWidgets(S) \/ ap = NullProject THEN S
        ELSE IF projectCopy = NullProject THEN S2
        ELSE IF TruthyStr(parent)
        THEN IF parentFolderIndex > 0
             THEN updateProjectInFirestore(S2, [widgets |-> Append(nestedWidgets, newWidget)])
             ELSE S2
        ELSE updateProjectInFirestore(S2,
                [widgets |-> Append(projectCopy.widgets, newWidget), layouts |-> newLayouts])

hasParent(w, id) == Has(w, "parentId") /\ w.parentId = id

\* mutant of handleRemoveWidget: only the folder itself is removed, its children stay
handleRemoveWidgetOnly(S, id) ==
    LET ap == activeProject(S)
        S1 == pushStateToHistory(S)
        projectCopy == safeDeepClone(ap)
    IN  IF ap = NullProject THEN S
        ELSE IF projectCopy = NullProject THEN S1
        ELSE updateProjectInFirestore(S1,
                [widgets |-> SelectSeq(projectCopy.widgets, LAMBDA w : w.id # id)])

handleRemoveWidget(S, id) ==
    LET ap == activeProject(S)
        S1 == pushStateToHistory(S)
        projectCopy == safeDeepClone(ap)
        removeIndex == findIndex(projectCopy.widgets, id)
        widgetToRemove == projectCopy.widgets[removeIndex]
        hasParentId == removeIndex > 0 /\ Has(widgetToRemove, "parentId")
                        /\ TruthyStr(widgetToRemove.parentId)
        parentFolderIndex == IF hasParentId
                             THEN findIndex(projectCopy.widgets, widgetToRemove.parentId)
                             ELSE 0
        parentFolder == projectCopy.widgets[parentFolderIndex]
        newChildrenLayouts ==
            [bp \in DOMAIN parentFolder.data.childrenLayouts |->
                SelectSeq(parentFolder.data.childrenLayouts[bp], LAMBDA l : l.i # id)]
        currentWidgets ==
            IF parentFolderIndex > 0 /\ Has(parentFolder.data, "childrenLayouts")
            THEN [projectCopy.widgets EXCEPT
                    ![parentFolderIndex] = withChildrenLayouts(parentFolder, newChildrenLayouts)]
            ELSE projectCopy.widgets
        widgetsToRemove ==
            {id} \cup (IF removeIndex > 0 /\ widgetToRemove.type = "folder"
                       THEN {w.id : w \in {v \in Range(projectCopy.widgets) : hasParent(v, id)}}
                       ELSE {})
        finalWidgets == SelectSeq(currentWidgets, LAMBDA w : w.id \notin widgetsToRemove)
    IN  IF ap = NullProject THEN S
        ELSE IF projectCopy = NullProject THEN S1
        ELSE updateProjectInFirestore(S1, [widgets |-> finalWidgets])


\* project.widgets.filter(w => w.parentId === id)
childrenOf(widgets, id) == SelectSeq(widgets, LAMBDA w : hasParent(w, id))

\* the queue loop of handleCopyWidget: the widgets to copy, in Map insertion order
RECURSIVE collectCopies(_, _, _)
collectCopies(queue, acc, widgets) ==
    IF queue = <<>> THEN acc
    ELSE LET current == Head(queue)
             acc2 == IF \E k \in DOMAIN acc : acc[k].id = current.id
                     THEN acc ELSE Append(acc, current)
             more == IF current.type = "folder" THEN childrenOf(widgets, current.id) ELSE <<>>
         IN  collectCopies(Tail(queue) \o more, acc2, widgets)

widgetsToCopyOf(widgets, id) ==
    LET widgetToCopy == widgets[findIndex(widgets, id)] IN
    IF widgetToCopy.type = "folder"
    THEN collectCopies(childrenOf(widgets, id), <<widgetToCopy>>, widgets)
    ELSE <<widgetToCopy>>

\* idMap.get(v) || v, for the id map (original id -> new id) of one copy
mapId(idMap, v) == IF v \in DOMAIN idMap THEN idMap[v] ELSE v

remapLayouts(idMap, layouts) ==
    [bp \in DOMAIN layouts |->
        [k \in DOMAIN layouts[bp] |-> [layouts[bp][k] EXCEPT !.i = mapId(idMap, @)]]]

\* mutant of remapCopy: the dependency references of a copied chart are not remapped
remapCopyNoDeps(idMap, original) ==
    LET w1 == [original EXCEPT !.id = idMap[original.id]]
        w2 == IF Has(w1, "parentId") /\ TruthyStr(w1.parentId)
              THEN [w1 EXCEPT !.parentId = mapId(idMap, @)] ELSE w1
    IN  IF w2.type = "folder" /\ Has(w2.data, "childrenLayouts")
        THEN [w2 EXCEPT !.data.childrenLayouts = remapLayouts(idMap, @)]
        ELSE w2

\* one copied widget: new id, then parentId, nested layout ids and chart dependencies
\* are sent through the id map
remapCopy(idMap, original) ==
    LET w1 == [original EXCEPT !.id = idMap[original.id]]
        w2 == IF Has(w1, "parentId") /\ TruthyStr(w1.parentId)
              THEN [w1 EXCEPT !.parentId = mapId(idMap, @)] ELSE w1
        w3 == IF w2.type = "folder" /\ Has(w2.data, "childrenLayouts")
              THEN [w2 EXCEPT !.data.childrenLayouts = remapLayouts(idMap, @)]
              ELSE w2
    IN  IF w3.type = "line"
        THEN [w3 EXCEPT !.data.deps = [k \in DOMAIN @ |-> mapId(idMap, @[k])]]
        ELSE w3

\* { ...originalLayout, i: newTopLevelWidget.id, w: Math.min(originalLayout.w, gridWidth) }
copyItemDefaults(originalLayout, newId, gridWidth) ==
    [originalLayout EXCEPT !.i = newId, !.w = Min(originalLayout.w, gridWidth)]

handleCopyWidget(S, id) ==
    LET ap == activeProject(S)
        S1 == pushStateToHistory(S)
        project == safeDeepClone(ap)
        found == findIndex(project.widgets, id) > 0
        widgetsToCopy == widgetsToCopyOf(project.widgets, id)
        idMap == [o \in {widgetsToCopy[k].id : k \in DOMAIN widgetsToCopy} |->
                    WidgetIds[S.nextId - 1 +
                        CHOOSE k \in DOMAIN widgetsToCopy : widgetsToCopy[k].id = o]]
        S2 == [S1 EXCEPT !.nextId = @ + Len(widgetsToCopy)]
        newWidgets == [k \in DOMAIN widgetsToCopy |-> remapCopy(idMap, widgetsToCopy[k])]
        newTopLevelWidget == newWidgets[1]
        nested == Has(newTopLevelWidget, "parentId") /\ TruthyStr(newTopLevelWidget.parentId)
        \* copy of a widget that lives in a folder
        parentFolderIndex == findIndex(project.widgets, newTopLevelWidget.parentId)
        parentFolder == project.widgets[parentFolderIndex]
        oldChildren == childrenLayoutsOf(parentFolder)
        nestedOrigIndex == findItem(layoutAt(oldChildren, "lg"), id)
        nestedOrig == oldChildren["lg"][nestedOrigIndex]
        newChildrenLayouts ==
            [bp \in BPSet \cup DOMAIN oldChildren |->
                IF bp \in BPSet
                THEN placeInto(layoutAt(oldChildren, bp),
                               copyItemDefaults(nestedOrig, newTopLevelWidget.id,
                                                NESTED_GRID_COLS[bp]),
                               NESTED_GRID_COLS[bp])
                ELSE oldChildren[bp]]
        nestedWidgets ==
            [project.widgets EXCEPT
                ![parentFolderIndex] = withChildrenLayouts(parentFolder, newChildrenLayouts)]
        \* copy of a top-level widget
        topOrigIndex == findItem(layoutAt(project.layouts, "lg"), id)
        topOrig == project.layouts["lg"][topOrigIndex]
        newLayouts ==
            [bp \in BPSet \cup DOMAIN project.layouts |->
                IF bp \in BPSet
                THEN placeInto(layoutAt(project.layouts, bp),
                               copyItemDefaults(topOrig, newTopLevelWidget.id, GRID_COLS[bp]),
                               GRID_COLS[bp])
                ELSE project.layouts[bp]]
    IN  IF ap = NullProject THEN S
        ELSE IF project = NullProject THEN S1
        ELSE IF ~found THEN S1
        ELSE IF nested
        THEN IF parentFolderIndex = 0 \/ nestedOrigIndex = 0 THEN S2
             ELSE updateProjectInFirestore(S2,
                    [widgets |-> nestedWidgets \o newWidgets, layouts |-> project.layouts])
        ELSE IF topOrigIndex = 0 THEN S2
             ELSE updateProjectInFirestore(S2,
                    [widgets |-> project.widgets \o newWidgets, layouts |-> newLayouts])

\* mutant of handleUpdateWidgetData: an absent assignedUserUid is stored as null
handleUpdateWidgetDataUnassign(S, id, data, assignedUserUid) ==
    LET ap == activeProject(S)
        newWidgets ==
            [k \in DOMAIN ap.widgets |->
                IF ap.widgets[k].id = id
                THEN ("assignedUser" :> (IF Has(assignedUserUid, "v")
                                         THEN assignedUserUid.v ELSE NullV))
                     @@ ("data" :> data) @@ ap.widgets[k]
                ELSE ap.widgets[k]]
    IN  IF ap = NullProject THEN S
        ELSE updateProjectInFirestore(S, [widgets |-> newWidgets])

\* assignedUserUid is Empty for an argument left out, [v |-> u] for null or a uid
handleUpdateWidgetData(S, id, data, assignedUserUid) ==
    LET ap == activeProject(S)
        newWidgets ==
            [k \in DOMAIN ap.widgets |->
                IF ap.widgets[k].id = id
                THEN (IF Has(assignedUserUid, "v")
                      THEN ("assignedUser" :> assignedUserUid.v) ELSE Empty)
                     @@ ("data" :> data) @@ ap.widgets[k]
                ELSE ap.widgets[k]]
    IN  IF ap = NullProject THEN S
        ELSE updateProjectInFirestore(S, [widgets |-> newWidgets])

\* folderData.isCollapsed as a condition (an absent flag is falsy)
isCollapsedOf(data) == Has(data, "isCollapsed") /\ data.isCollapsed

\* mutant of handleLayoutChange: expandedH is set for collapsed folders too
handleLayoutChangeCollapsed(S, layout, allLayouts) ==
    LET ap == activeProject(S)
        cleanedAllLayouts == cleanAllLayouts(allLayouts)
        newWidgets ==
            [k \in DOMAIN ap.widgets |->
                LET widget == ap.widgets[k]
                    item == findItem(layout, widget.id)
                IN  IF widget.type = "folder" /\ item > 0
                    THEN [widget EXCEPT !.data = ("expandedH" :> layout[item].h) @@ widget.data]
                    ELSE widget]
    IN  IF ~isEditableOverall(S) \/ ap = NullProject THEN S
        ELSE updateProjectInFirestore(S, [widgets |-> newWidgets, layouts |-> cleanedAllLayouts])

\* layout is the layout of the breakpoint the grid is showing, allLayouts all of them
handleLayoutChange(S, layout, allLayouts) ==
    LET ap == activeProject(S)
        cleanedAllLayouts == cleanAllLayouts(allLayouts)
        newWidgets ==
            [k \in DOMAIN ap.widgets |->
                LET widget == ap.widgets[k]
                    item == findItem(layout, widget.id)
                IN  IF widget.type = "folder" /\ item > 0 /\ ~isCollapsedOf(widget.data)
                    THEN [widget EXCEPT !.data = ("expandedH" :> layout[item].h) @@ widget.data]
                    ELSE widget]
    IN  IF ~isEditableOverall(S) \/ ap = NullProject THEN S
        ELSE updateProjectInFirestore(S, [widgets |-> newWidgets, layouts |-> cleanedAllLayouts])


\* Math.ceil(a / b) for a >= 0, b > 0
CeilDiv(a, b) == (a + b - 1) \div b

\* mutant of folderHeightFor: the folder header (60 px) is left out of the pixel height
folderHeightForNoHeader(childrenLayout) ==
    LET maxRows == maxBottom(childrenLayout)
        contentPixelHeight == maxRows * 21 + (IF maxRows > 0 THEN (maxRows - 1) * 8 ELSE 0) + 32
        newHeight == IF Len(childrenLayout) > 0
                     THEN CeilDiv(contentPixelHeight + 16, 50 + 16)
                     ELSE WIDGET_DEFAULTS["folder"].h
    IN  Max(WIDGET_DEFAULTS["folder"].h, newHeight)

\* the row-span handleChildrenLayoutChange derives from a nested layout
folderHeightFor(childrenLayout) ==
    LET maxRows == maxBottom(childrenLayout)
        contentPixelHeight == maxRows * 21 + (IF maxRows > 0 THEN (maxRows - 1) * 8 ELSE 0) + 32
        totalPixelHeight == contentPixelHeight + 60
        newHeight == IF Len(childrenLayout) > 0
                     THEN CeilDiv(totalPixelHeight + 16, 50 + 16)
                     ELSE WIDGET_DEFAULTS["folder"].h
    IN  Max(WIDGET_DEFAULTS["folder"].h, newHeight)

\* the breakpoints, in key order, at which layouts holds an entry for id
bpsWithItem(layouts, id) ==
    SelectSeq(BPs, LAMBDA bp : bp \in DOMAIN layouts /\ findItem(layouts[bp], id) > 0)

setItemH(layout, id, h) ==
    LET k == findItem(layout, id) IN
    IF k = 0 THEN layout ELSE [layout EXCEPT ![k].h = h]

\* mutant of handleWidgetHeightChange: the handler pushes a snapshot before it writes
handleWidgetHeightChangePushing(S, widgetId, newH) ==
    LET ap == activeProject(S)
        cleanedLayouts == cleanAllLayouts(ap.layouts)
        newLayouts == [bp \in DOMAIN cleanedLayouts |->
                        setItemH(cleanedLayouts[bp], widgetId, newH)]
    IN  IF ~isEditableOverall(S) \/ ap = NullProject THEN S
        ELSE IF newLayouts # cleanedLayouts
        THEN updateProjectInFirestore(pushStateToHistory(S), [layouts |-> newLayouts])
        ELSE S

\* the layouts are cleaned and cloned (the JSON round trip leaves their numbers and
\* flags as they are); every breakpoint's entry of the widget gets row-span newH, and a
\* write is issued only when some entry changed
handleWidgetHeightChange(S, widgetId, newH) ==
    LET ap == activeProject(S)
        cleanedLayouts == cleanAllLayouts(ap.layouts)
        changed == \E bp \in DOMAIN cleanedLayouts :
                        LET k == findItem(cleanedLayouts[bp], widgetId) IN
                        k > 0 /\ cleanedLayouts[bp][k].h # newH
        newLayouts == [bp \in DOMAIN cleanedLayouts |->
                        setItemH(cleanedLayouts[bp], widgetId, newH)]
    IN  IF ~isEditableOverall(S) \/ ap = NullProject THEN S
        ELSE IF changed THEN updateProjectInFirestore(S, [layouts |-> newLayouts])
        ELSE S

\* mutant of handleChildrenLayoutChange: the height is recomputed for a collapsed folder too
handleChildrenLayoutChangeAlways(S, folderId, allChildrenLayouts) ==
    LET ap == activeProject(S)
        cleanedChildrenLayouts == cleanAllLayouts(allChildrenLayouts)
        projectCopy == safeDeepClone(ap)
        folderIndex == findIndex(projectCopy.widgets, folderId)
        folder == projectCopy.widgets[folderIndex]
        \* breakpoints whose folder entry is recomputed, in Object.keys(GRID_COLS) order
        touched == bpsWithItem(projectCopy.layouts, folderId)
        heightAt(bp) == folderHeightFor(layoutAt(cleanedChildrenLayouts, bp))
        newLayouts ==
            [bp \in DOMAIN projectCopy.layouts |->
                IF bp \in Range(touched)
                THEN setItemH(projectCopy.layouts[bp], folderId, heightAt(bp))
                ELSE projectCopy.layouts[bp]]
        updatedFolderData ==
            (IF Len(touched) > 0
             THEN ("expandedH" :> heightAt(touched[Len(touched)])) ELSE Empty)
            @@ ("childrenLayouts" :> cleanedChildrenLayouts) @@ folder.data
        newWidgets == [projectCopy.widgets EXCEPT ![folderIndex] = [@ EXCEPT !.data = updatedFolderData]]
    IN  IF ~isEditableOverall(S) \/ ap = NullProject THEN S
        ELSE IF projectCopy = NullProject THEN S
        ELSE IF folderIndex = 0 THEN S
        ELSE updateProjectInFirestore(S, [widgets |-> newWidgets, layouts |-> newLayouts])

handleChildrenLayoutChange(S, folderId, allChildrenLayouts) ==
    LET ap == activeProject(S)
        cleanedChildrenLayouts == cleanAllLayouts(allChildrenLayouts)
        projectCopy == safeDeepClone(ap)
        folderIndex == findIndex(projectCopy.widgets, folderId)
        folder == projectCopy.widgets[folderIndex]
        \* breakpoints whose folder entry is recomputed, in Object.keys(GRID_COLS) order
        touched == IF isCollapsedOf(folder.data) THEN <<>>
                   ELSE bpsWithItem(projectCopy.layouts, folderId)
        heightAt(bp) == folderHeightFor(layoutAt(cleanedChildrenLayouts, bp))
        newLayouts ==
            [bp \in DOMAIN projectCopy.layouts |->
                IF bp \in Range(touched)
                THEN setItemH(projectCopy.layouts[bp], folderId, heightAt(bp))
                ELSE projectCopy.layouts[bp]]
        updatedFolderData ==
            (IF Len(touched) > 0
             THEN ("expandedH" :> heightAt(touched[Len(touched)])) ELSE Empty)
            @@ ("childrenLayouts" :> cleanedChildrenLayouts) @@ folder.data
        newWidgets == [projectCopy.widgets EXCEPT ![folderIndex] = [@ EXCEPT !.data = updatedFolderData]]
    IN  IF ~isEditableOverall(S) \/ ap = NullProject THEN S
        ELSE IF projectCopy = NullProject THEN S
        ELSE IF folderIndex = 0 THEN S
        ELSE updateProjectInFirestore(S, [widgets |-> newWidgets, layouts |-> newLayouts])

\* mutant of handleToggleFolder: every entry of the layouts gets the new height
handleToggleFolderEveryEntry(S, widgetId) ==
    LET ap == activeProject(S)
        S1 == pushStateToHistory(S)
        projectCopy == safeDeepClone(ap)
        idx == {k \in DOMAIN projectCopy.widgets :
                    projectCopy.widgets[k].id = widgetId /\ projectCopy.widgets[k].type = "folder"}
        folderWidgetIndex == IF idx = {} THEN 0 ELSE CHOOSE k \in idx : \A j \in idx : k <= j
        folder == projectCopy.widgets[folderWidgetIndex]
        newIsCollapsed == ~isCollapsedOf(folder.data)
        collapsedH == IF folder.minH # 0 THEN folder.minH ELSE WIDGET_DEFAULTS["folder"].minH
        \* Object.keys(projectCopy.layouts).forEach: every breakpoint with an entry of the
        \* folder overwrites the one expandedH, so the last of them is what stays
        withItem == bpsWithItem(projectCopy.layouts, widgetId)
        lastBp == withItem[Len(withItem)]
        expandTo == IF Has(folder.data, "expandedH") /\ folder.data.expandedH # 0
                    THEN folder.data.expandedH ELSE WIDGET_DEFAULTS["folder"].h
        folderData ==
            (IF newIsCollapsed /\ Len(withItem) > 0
             THEN ("expandedH" :> projectCopy.layouts[lastBp][findItem(projectCopy.layouts[lastBp], widgetId)].h)
             ELSE Empty)
            @@ ("isCollapsed" :> newIsCollapsed) @@ folder.data
        newLayouts ==
            [bp \in DOMAIN projectCopy.layouts |->
                [k \in DOMAIN projectCopy.layouts[bp] |->
                    [projectCopy.layouts[bp][k] EXCEPT
                        !.h = IF newIsCollapsed THEN collapsedH ELSE expandTo]]]
        newWidgets == [projectCopy.widgets EXCEPT ![folderWidgetIndex] = [@ EXCEPT !.data = folderData]]
    IN  IF ~isEditableOverall(S) \/ ap = NullProject THEN S
        ELSE IF projectCopy = NullProject THEN S1
        ELSE IF folderWidgetIndex = 0 THEN S1
        ELSE updateProjectInFirestore(S1, [widgets |-> newWidgets, layouts |-> newLayouts])

handleToggleFolder(S, widgetId) ==
    LET ap == activeProject(S)
        S1 == pushStateToHistory(S)
        projectCopy == safeDeepClone(ap)
        idx == {k \in DOMAIN projectCopy.widgets :
                    projectCopy.widgets[k].id = widgetId /\ projectCopy.widgets[k].type = "folder"}
        folderWidgetIndex == IF idx = {} THEN 0 ELSE CHOOSE k \in idx : \A j \in idx : k <= j
        folder == projectCopy.widgets[folderWidgetIndex]
        newIsCollapsed == ~isCollapsedOf(folder.data)
        collapsedH == IF folder.minH # 0 THEN folder.minH ELSE WIDGET_DEFAULTS["folder"].minH
        \* Object.keys(projectCopy.layouts).forEach: every breakpoint with an entry of the
        \* folder overwrites the one expandedH, so the last of them is what stays
        withItem == bpsWithItem(projectCopy.layouts, widgetId)
        lastBp == withItem[Len(withItem)]
        expandTo == IF Has(folder.data, "expandedH") /\ folder.data.expandedH # 0
                    THEN folder.data.expandedH ELSE WIDGET_DEFAULTS["folder"].h
        folderData ==
            (IF newIsCollapsed /\ Len(withItem) > 0
             THEN ("expandedH" :> projectCopy.layouts[lastBp][findItem(projectCopy.layouts[lastBp], widgetId)].h)
             ELSE Empty)
            @@ ("isCollapsed" :> newIsCollapsed) @@ folder.data
        newLayouts ==
            [bp \in DOMAIN projectCopy.layouts |->
                setItemH(projectCopy.layouts[bp], widgetId,
                         IF newIsCollapsed THEN collapsedH ELSE expandTo)]
        newWidgets == [projectCopy.widgets EXCEPT ![folderWidgetIndex] = [@ EXCEPT !.data = folderData]]
    IN  IF ~isEditableOverall(S) \/ ap = NullProject THEN S
        ELSE IF projectCopy = NullProject THEN S1
        ELSE IF folderWidgetIndex = 0 THEN S1
        ELSE updateProjectInFirestore(S1, [widgets |-> newWidgets, layouts |-> newLayouts])

\* handleDragStop and handleResizeStop: a push, nothing is written
handleDragStop(S) == IF ~isEditableOverall(S) THEN S ELSE pushStateToHistory(S)
handleResizeStop(S) == IF ~isEditableOverall(S) THEN S ELSE pushStateToHistory(S)

(***************************************************************************)
(* Project sync                                                            *)
(***************************************************************************)
\* the documents the projects query matches, as { id: doc.id, ...doc.data() }
queryProjects(S) ==
    LET ids == SelectSeq(ProjectIds, LAMBDA id :
                    id \in DOMAIN S.store
                    /\ \E k \in DOMAIN S.store[id].participant_uids :
                            S.store[id].participant_uids[k] = user)
    IN  [k \in DOMAIN ids |-> S.store[ids[k]] @@ [id |-> ids[k]]]

\* mutant of manageActiveProject: a missing active id is never replaced
manageActiveProjectNoFallback(S) ==
    IF Len(S.projects) = 0 /\ S.activeProjectId # NullV
    THEN [S EXCEPT !.activeProjectId = NullV]
    ELSE S

\* mutant of manageActiveProject: the fallback is the last project of the list
manageActiveProjectLast(S) ==
    LET activeProjectExists == \E k \in DOMAIN S.projects : S.projects[k].id = S.activeProjectId IN
    IF Len(S.projects) > 0 /\ ~activeProjectExists
    THEN [S EXCEPT !.activeProjectId = S.projects[Len(S.projects)].id]
    ELSE IF Len(S.projects) = 0 /\ S.activeProjectId # NullV
    THEN [S EXCEPT !.activeProjectId = NullV]
    ELSE S

\* Effect 2: keep activeProjectId on a project of the list
manageActiveProject(S) ==
    LET activeProjectExists == \E k \in DOMAIN S.projects : S.projects[k].id = S.activeProjectId IN
    IF Len(S.projects) > 0 /\ ~activeProjectExists
    THEN [S EXCEPT !.activeProjectId = S.projects[1].id]
    ELSE IF Len(S.projects) = 0 /\ S.activeProjectId # NullV
    THEN [S EXCEPT !.activeProjectId = NullV]
    ELSE S

\* the onSnapshot callback of the projects query, and the effect it triggers
onProjectsSnapshot(S) == manageActiveProject([S EXCEPT !.projects = queryProjects(S)])

\* onProjectSelect of the sidebar
selectProject(S, id) == [S EXCEPT !.activeProjectId = id]


(***************************************************************************)
(* Bounds of the model                                                     *)
(***************************************************************************)
MaxIds == 10        \* ids uuidv4 may hand out in one run
MaxOps == 2         \* operations invoked on top of a prepared project
MaxOpsEmpty == 4    \* operations invoked on top of the empty project
MaxPushes == 22     \* entries pushed in a run of the history specification
MaxSelects == 2     \* project switches in a run of the history specification
MaxUndos == 1       \* undos in a run of the history specification
MaxToggles == 1     \* folder toggles in a run of the history specification
MaxRects == 2       \* rectangles of a layout handed to the placement scan

(***************************************************************************)
(* Runs: operations with every write echoed back before the next one       *)
(***************************************************************************)
\* the document handleAddProject creates
newProjectData ==
    [ name |-> "project", emoji |-> "e", isTeamProject |-> FALSE, owner_uid |-> user,
      member_uids |-> Empty, participant_uids |-> <<user>>,
      widgets |-> <<>>, layouts |-> Empty ]

\* one project, created, delivered and active
S0 ==
    onProjectsSnapshot(
        [ store |-> [id \in {"p1"} |-> newProjectData], projects |-> <<>>,
          activeProjectId |-> NullV, history |-> <<>>, nextId |-> 1, pushed |-> <<>> ])

\* two projects; the first of the list is active
S0Two ==
    onProjectsSnapshot(
        [ store |-> [id \in {"p1", "p2"} |-> newProjectData], projects |-> <<>>,
          activeProjectId |-> NullV, history |-> <<>>, nextId |-> 1, pushed |-> <<>> ])

OpAdd(type, parent) == [op |-> "add", type |-> type, parent |-> parent]
OpRemove(id) == [op |-> "remove", id |-> id]
OpCopy(id) == [op |-> "copy", id |-> id]
OpToggle(id) == [op |-> "toggle", id |-> id]
OpUndo == [op |-> "undo"]
OpRecompute(id) == [op |-> "recompute", id |-> id]
OpDeps(id, deps) == [op |-> "deps", id |-> id, deps |-> deps]
OpResize(bp, id) == [op |-> "resize", bp |-> bp, id |-> id]
OpSelect(id) == [op |-> "select", id |-> id]
OpAssign(id, uid) == [op |-> "assign", id |-> id, uid |-> uid]
OpHeight(id, h) == [op |-> "height", id |-> id, h |-> h]
OpDragStop == [op |-> "dragstop"]
OpResizeStop == [op |-> "resizestop"]

\* the grid reports a resize: the entry of id at bp is one row taller
resizedLayouts(ap, bp, id) ==
    [ap.layouts EXCEPT ![bp] = setItemH(@, id, @[findItem(@, id)].h + 1)]

\* the chart editor stores the widgets whose fields the chart reads
dataWithDeps(w, deps) == [w.data EXCEPT !.deps = deps]

widgetById(ap, id) == ap.widgets[findIndex(ap.widgets, id)]

\* the nested grid of folder id reports its layouts as they are
reportChildrenLayouts(S, id) ==
    handleChildrenLayoutChange(S, id, childrenLayoutsOf(widgetById(activeProject(S), id)))

\* the chart editor of widget id saves its payload with the given dependencies
saveDependencies(S, id, deps) ==
    handleUpdateWidgetData(S, id, dataWithDeps(widgetById(activeProject(S), id), deps), Empty)

\* handleAssignUser of the widget menu: the payload as it is, and the chosen user or null
assignUser(S, id, uid) ==
    handleUpdateWidgetData(S, id, widgetById(activeProject(S), id).data, [v |-> uid])

\* the grid reports the layouts after widget id was made one row taller at bp
reportResize(S, bp, id) ==
    LET all == resizedLayouts(activeProject(S), bp, id) IN handleLayoutChange(S, all[bp], all)

\* the handler an operation of a prepared run invokes
invoke(S, o) ==
    CASE o.op = "add" -> handleAddWidget(S, o.type, o.parent)
      [] o.op = "recompute" -> reportChildrenLayouts(S, o.id)
      [] o.op = "deps" -> saveDependencies(S, o.id, o.deps)
      [] o.op = "select" -> selectProject(S, o.id)

\* the state after the operations of a run, each followed by its echo
RECURSIVE runFrom(_, _, _)
runFrom(S, ops, k) ==
    IF k > Len(ops) THEN S
    ELSE runFrom(onProjectsSnapshot(invoke(S, ops[k])), ops, k + 1)

\* prepared projects, each given by the run that builds it from the empty project
SeedNone == <<>>
\* a plan, and a folder holding a plan and a chart that reads both plans
SeedFolder ==
    << OpAdd("plan", NullV), OpAdd("folder", NullV), OpAdd("plan", "w2"), OpAdd("line", "w2"),
       OpRecompute("w2"), OpDeps("w4", <<"w3", "w1">>) >>
\* a folder holding a folder that holds a plan
SeedNested ==
    << OpAdd("folder", NullV), OpAdd("folder", "w1"), OpAdd("plan", "w2") >>
\* a session over two projects: two plans in the first, one plan in the second
SeedTwoProjects ==
    << OpAdd("plan", NullV), OpAdd("plan", NullV), OpSelect("p2"), OpAdd("plan", NullV) >>
Seeds == {SeedNone, SeedFolder, SeedNested, SeedTwoProjects}
\* the state a seed starts from
SeedBase(sd) == IF sd = SeedTwoProjects THEN S0Two ELSE S0


(***************************************************************************)
(* Specification Spec: one client, one project, every write echoed back    *)
(* before the next operation is invoked                                    *)
(***************************************************************************)
PureIdle == inp = Empty /\ out = Empty /\ pc = "idle"

\* no tab of the project-list specification is open
ProjIdle == tabs = Empty /\ signup = "none" /\ created = <<>> /\ calls = <<>>

IsState(S) ==
    /\ store = S.store
    /\ projects = S.projects
    /\ activeProjectId = S.activeProjectId
    /\ history = S.history
    /\ nextId = S.nextId
    /\ pushed = S.pushed

Init ==
    \E sd \in Seeds :
        /\ IsState(runFrom(SeedBase(sd), sd, 1))
        /\ log = sd
        /\ fuel = IF sd = SeedNone THEN MaxOpsEmpty ELSE MaxOps
        /\ pre = <<>>
        /\ PureIdle
        /\ ProjIdle

\* operations that change the structure of the project
Mutations == {"add", "remove", "copy", "toggle"}

Synced == onProjectsSnapshot(Cur) = Cur
Ready == fuel > 0 /\ Synced

\* operation o is invoked and its handler leaves the client in state S
Do(S, o) ==
    /\ Becomes(S)
    /\ log' = Append(log, o)
    /\ fuel' = fuel - 1
    /\ pre' = IF o.op \in Mutations THEN Append(pre, activeProject(Cur)) ELSE pre
    /\ UNCHANGED <<pureVars, projVars>>

\* ids of the widgets of the local active project
LocalIds ==
    LET ap == activeProject(Cur) IN
    IF ap = NullProject THEN {} ELSE {ap.widgets[k].id : k \in DOMAIN ap.widgets}

LocalIdsOfType(t) ==
    LET ap == activeProject(Cur) IN
    IF ap = NullProject THEN {}
    ELSE {ap.widgets[k].id : k \in {j \in DOMAIN ap.widgets : ap.widgets[j].type = t}}

DeliverSnapshot ==
    /\ ~Synced
    /\ Becomes(onProjectsSnapshot(Cur))
    /\ UNCHANGED <<ghostVars, pureVars, projVars>>

\* the folders whose menu or empty body offers "add widget": the expanded ones
LocalOpenFolders ==
    LET ap == activeProject(Cur) IN
    {id \in LocalIdsOfType("folder") : ~isCollapsedOf(widgetById(ap, id).data)}

\* handleInitiateAddWidget stores the parent (none for the header button), the widget
\* menu then picks the type
AddWidget ==
    /\ Ready
    /\ nextId <= MaxIds
    /\ \E type \in WidgetTypes, parent \in {NullV} \cup LocalOpenFolders :
        Do(handleAddWidget(Cur, type, parent), OpAdd(type, parent))

RemoveWidget == Ready /\ \E id \in LocalIds : Do(handleRemoveWidget(Cur, id), OpRemove(id))

CopyWidget ==
    /\ Ready
    /\ \E id \in LocalIds :
        /\ nextId + Len(widgetsToCopyOf(activeProject(Cur).widgets, id)) - 1 <= MaxIds
        /\ Do(handleCopyWidget(Cur, id), OpCopy(id))

\* the toggle button is on folders only
ToggleFolder ==
    Ready /\ \E id \in LocalIdsOfType("folder") : Do(handleToggleFolder(Cur, id), OpToggle(id))

Undo == Ready /\ Do(handleUndo(Cur), OpUndo)

\* the sidebar lists the projects; the user picks another one
SelectProject ==
    /\ Ready
    /\ \E k \in DOMAIN projects :
        /\ projects[k].id # activeProjectId
        /\ Do(selectProject(Cur, projects[k].id), OpSelect(projects[k].id))

\* the nested grid of a folder reports its layouts as they are
RecomputeFolder ==
    Ready /\ \E id \in LocalIdsOfType("folder") : Do(reportChildrenLayouts(Cur, id), OpRecompute(id))

SetDependency ==
    /\ Ready
    /\ \E id \in LocalIdsOfType("line"), t \in LocalIds :
        t # id /\ Do(saveDependencies(Cur, id, <<t>>), OpDeps(id, <<t>>))

\* breakpoints at which the grid is shown while a widget is resized
ResizeBPs == {"lg", "xs"}

\* the grid lets a widget grow only into free rows
ResizeWidget ==
    /\ Ready
    /\ \E bp \in ResizeBPs \cap DOMAIN activeProject(Cur).layouts :
        \E k \in DOMAIN activeProject(Cur).layouts[bp] :
            LET layout == activeProject(Cur).layouts[bp]
                others == SelectSeq(layout, LAMBDA l : l.i # layout[k].i)
            IN  /\ ~isColliding([layout[k] EXCEPT !.h = @ + 1], others)
                /\ Do(reportResize(Cur, bp, layout[k].i), OpResize(bp, layout[k].i))

\* the users the assign menu offers: nobody (null) or a member of the project
Assignees == {NullV, "u2"}

AssignUser ==
    /\ Ready
    /\ \E id \in LocalIds, uid \in Assignees : Do(assignUser(Cur, id, uid), OpAssign(id, uid))

\* row-spans a widget asks for when its content has grown
ContentHeights == {3}

\* a widget reports the row-span its content needs (onWidgetHeightChange)
WidgetHeightChange ==
    /\ Ready
    /\ \E id \in LocalIds, h \in ContentHeights :
        Do(handleWidgetHeightChange(Cur, id, h), OpHeight(id, h))

Next ==
    \/ DeliverSnapshot
    \/ AddWidget
    \/ RemoveWidget
    \/ CopyWidget
    \/ ToggleFolder
    \/ Undo
    \/ SelectProject
    \/ RecomputeFolder
    \/ SetDependency
    \/ ResizeWidget
    \/ WidgetHeightChange
    \/ AssignUser

Spec == Init /\ [][Next]_vars


(***************************************************************************)
(* Claims checked under Spec                                               *)
(***************************************************************************)
Last(s) == s[Len(s)]

\* the remote document of the active project, as the projects query delivers it
RemoteActive == store[activeProjectId] @@ [id |-> activeProjectId]

Ids(P) == {P.widgets[k].id : k \in DOMAIN P.widgets}
WidgetOf(P, id) == P.widgets[CHOOSE k \in DOMAIN P.widgets : P.widgets[k].id = id]
IsFolderOf(P, F) == F \in Ids(P) /\ WidgetOf(P, F).type = "folder"
\* ids of the widgets whose parentId is F
ChildIds(P, F) ==
    {P.widgets[k].id : k \in {j \in DOMAIN P.widgets :
        "parentId" \in DOMAIN P.widgets[j] /\ P.widgets[j].parentId = F}}
\* ids some nested layout of P lists, at any breakpoint
NestedIds(P) ==
    UNION {UNION {{P.widgets[k].data.childrenLayouts[bp][j].i :
                        j \in DOMAIN P.widgets[k].data.childrenLayouts[bp]} :
                    bp \in DOMAIN P.widgets[k].data.childrenLayouts} :
            k \in {j \in DOMAIN P.widgets : "childrenLayouts" \in DOMAIN P.widgets[j].data}}

\* the log consists of Adds of a top-level plan widget (footprint 4 x 2) and nothing else
OnlyPlanAdds == log # <<>> /\ \A k \in DOMAIN log : log[k] = OpAdd("plan", NullV)
C3_Cells == <<[x |-> 0, y |-> 0], [x |-> 4, y |-> 0], [x |-> 8, y |-> 0], [x |-> 0, y |-> 2]>>

\* C3: starting from the empty project, up to four successive Adds of a (4,2) widget, each
\* after the echo of the one before, fill the 12-column lg layout at (0,0), (4,0), (8,0)
\* and (0,2), in that order
C3_FourAddsScenario ==
    (OnlyPlanAdds /\ Len(log) <= Len(C3_Cells)) =>
        LET lg == store["p1"].layouts["lg"] IN
        /\ GRID_COLS["lg"] = 12
        /\ Len(lg) = Len(log)
        /\ \A k \in DOMAIN lg :
            /\ lg[k].w = 4 /\ lg[k].h = 2
            /\ [x |-> lg[k].x, y |-> lg[k].y] = C3_Cells[k]

\* four plans were added and the fourth went to the second row
C3_Witness ==
    /\ OnlyPlanAdds /\ Len(log) = 4 /\ Synced
    /\ Len(store["p1"].layouts["lg"]) = 4
    /\ store["p1"].layouts["lg"][4].x = 0
    /\ store["p1"].layouts["lg"][4].y = 2

\* the last two operations were a structural mutation and an Undo
MutationThenUndo ==
    /\ Len(log) >= 2 /\ pre # <<>>
    /\ Last(log) = OpUndo
    /\ log[Len(log) - 1].op \in Mutations

\* C6: when a mutation M (Add, Remove, Copy, ToggleFolder) invoked on the local project
\* P0 has been echoed back and Undo is invoked next, the remote project is sanitize(P0)
C6_UndoRestoresSanitized ==
    MutationThenUndo => RemoteActive = safeDeepClone(Last(pre))

\* a folder with children was removed and the Undo brought all of them back
C6_Witness ==
    /\ MutationThenUndo
    /\ log[Len(log) - 1].op = "remove"
    /\ IsFolderOf(Last(pre), log[Len(log) - 1].id)
    /\ ChildIds(Last(pre), log[Len(log) - 1].id) # {}
    /\ RemoteActive.widgets = Last(pre).widgets

\* the step invokes Undo
UndoStep == log' = Append(log, OpUndo)
\* positions of the history entries of the active project
RelevantEntries == {k \in DOMAIN history : history[k].projectId = activeProjectId}
WithoutEntry(h, k) == [j \in 1..(Len(h) - 1) |-> IF j < k THEN h[j] ELSE h[j + 1]]

\* C7: Undo writes the snapshot of the last history entry of the active project to the
\* active project's document, whatever lies above that entry, removes that entry and no
\* other and keeps the order of the rest; with no entry of the active project it writes
\* nothing and leaves the history as it is
C7_UndoMostRecentOfActive ==
    [][UndoStep =>
        IF RelevantEntries = {}
        THEN history' = history /\ store' = store
        ELSE LET k == CHOOSE i \in RelevantEntries : \A j \in RelevantEntries : j <= i IN
             /\ history' = WithoutEntry(history, k)
             /\ \A f \in DOMAIN history[k].projectState :
                    store'[activeProjectId][f] = history[k].projectState[f]
             /\ \A p \in DOMAIN store \ {activeProjectId} : store'[p] = store[p]
      ]_vars

\* Undo skipped the entry of the other project on top of the stack and applied the later
\* of the two entries of the active project
C7_Witness ==
    /\ log # <<>> /\ Last(log) = OpUndo
    /\ Len(pushed) = 3
    /\ pushed[1].projectId = activeProjectId
    /\ pushed[2].projectId = activeProjectId
    /\ pushed[3].projectId # activeProjectId
    /\ pushed[1].projectState # pushed[2].projectState
    /\ history = <<pushed[1], pushed[3]>>
    /\ RemoteActive = pushed[2].projectState

\* the last operation removed a widget that was a folder of the local project
FolderRemoved ==
    /\ log # <<>> /\ pre # <<>>
    /\ Last(log).op = "remove"
    /\ IsFolderOf(Last(pre), Last(log).id)

\* C8: after Remove(F) of a folder F the widget list holds neither F nor any widget whose
\* parentId was F, and no nested layout lists any of these ids at any breakpoint
C8_RemoveFolderCascade ==
    FolderRemoved =>
        LET gone == {Last(log).id} \cup ChildIds(Last(pre), Last(log).id) IN
        /\ Ids(store[activeProjectId]) \cap gone = {}
        /\ NestedIds(store[activeProjectId]) \cap gone = {}

\* a folder went together with its two children, another widget stayed
C8_Witness ==
    /\ FolderRemoved
    /\ Cardinality(ChildIds(Last(pre), Last(log).id)) = 2
    /\ Len(store[activeProjectId].widgets) = Len(Last(pre).widgets) - 3
    /\ store[activeProjectId].widgets # <<>>

\* the last operation copied a folder F of the local project that has a layout entry:
\* in the top-level lg layout, or in the lg nested layout of its parent
FolderCopied ==
    /\ log # <<>> /\ pre # <<>>
    /\ Last(log).op = "copy"
    /\ IsFolderOf(Last(pre), Last(log).id)
    /\ LET P0 == Last(pre)
           F == WidgetOf(P0, Last(log).id)
       IN  IF "parentId" \in DOMAIN F
           THEN /\ F.parentId \in Ids(P0)
                /\ "childrenLayouts" \in DOMAIN WidgetOf(P0, F.parentId).data
                /\ "lg" \in DOMAIN WidgetOf(P0, F.parentId).data.childrenLayouts
                /\ \E j \in DOMAIN WidgetOf(P0, F.parentId).data.childrenLayouts["lg"] :
                        WidgetOf(P0, F.parentId).data.childrenLayouts["lg"][j].i = F.id
           ELSE /\ "lg" \in DOMAIN P0.layouts
                /\ \E j \in DOMAIN P0.layouts["lg"] : P0.layouts["lg"][j].i = F.id

\* F and the widgets reachable from it over parentId links
RECURSIVE WithDescendants(_, _)
WithDescendants(P, set) ==
    LET more == set \cup UNION {ChildIds(P, id) : id \in set} IN
    IF more = set THEN set ELSE WithDescendants(P, more)

\* the widgets the copy appended to the widget list
AddedWidgets ==
    SubSeq(store[activeProjectId].widgets, Len(Last(pre).widgets) + 1,
           Len(store[activeProjectId].widgets))
AddedIds == {AddedWidgets[k].id : k \in DOMAIN AddedWidgets}

\* the ids of the added widgets are pairwise distinct and none was in the project
FreshIds ==
    /\ Cardinality(AddedIds) = Len(AddedWidgets)
    /\ AddedIds \cap Ids(Last(pre)) = {}

Mapped(m, v) == IF v \in DOMAIN m THEN m[v] ELSE v

\* c is o with its id and every reference sent through m
IsCopyOf(c, o, m) ==
    /\ c.id = m[o.id]
    /\ c.type = o.type
    /\ ("parentId" \in DOMAIN c) = ("parentId" \in DOMAIN o)
    /\ "parentId" \in DOMAIN o => c.parentId = Mapped(m, o.parentId)
    /\ DOMAIN c.data = DOMAIN o.data
    /\ "childrenLayouts" \in DOMAIN o.data =>
        /\ DOMAIN c.data.childrenLayouts = DOMAIN o.data.childrenLayouts
        /\ \A bp \in DOMAIN o.data.childrenLayouts :
            /\ Len(c.data.childrenLayouts[bp]) = Len(o.data.childrenLayouts[bp])
            /\ \A j \in DOMAIN o.data.childrenLayouts[bp] :
                c.data.childrenLayouts[bp][j].i = Mapped(m, o.data.childrenLayouts[bp][j].i)
    /\ "deps" \in DOMAIN o.data =>
        /\ Len(c.data.deps) = Len(o.data.deps)
        /\ \A j \in DOMAIN o.data.deps : c.data.deps[j] = Mapped(m, o.data.deps[j])

\* every widget of the copy set has its copy among the added widgets, under one map m of
\* original ids to new ids: references into the copy set follow m, the others stay
RefsRemapped(copySet) ==
    \E m \in [copySet -> AddedIds] :
        \A id \in copySet :
            \E k \in DOMAIN AddedWidgets : IsCopyOf(AddedWidgets[k], WidgetOf(Last(pre), id), m)

ToggledTwice ==
    /\ Len(log) >= 2 /\ Len(pre) >= 2
    /\ Last(log).op = "toggle"
    /\ log[Len(log) - 1] = Last(log)
    /\ IsFolderOf(pre[Len(pre) - 1], Last(log).id)
    /\ ~isCollapsedOf(WidgetOf(pre[Len(pre) - 1], Last(log).id).data)

\* C10: after collapse and expand of an expanded folder F its row-span is, at every
\* breakpoint, the one it had at that breakpoint before the collapse
C10_ToggleTwiceRestoresHeights ==
    ToggledTwice =>
        LET P0 == pre[Len(pre) - 1]
            after == store[activeProjectId]
        IN  \A bp \in DOMAIN P0.layouts : \A k \in DOMAIN P0.layouts[bp] :
                P0.layouts[bp][k].i = Last(log).id =>
                    \E j \in DOMAIN after.layouts[bp] :
                        /\ after.layouts[bp][j].i = Last(log).id
                        /\ after.layouts[bp][j].h = P0.layouts[bp][k].h


(***************************************************************************)
(* Folder heights                                                          *)
(***************************************************************************)
\* the row-spans of the top-level entries of widget id at breakpoint bp of project P
RowSpans(P, id, bp) ==
    IF bp \in DOMAIN P.layouts
    THEN {P.layouts[bp][k].h : k \in {j \in DOMAIN P.layouts[bp] : P.layouts[bp][j].i = id}}
    ELSE {}

\* the last two operations were an Add into an expanded folder F of the local project
\* and the layout report of F's nested grid that follows it
ChildAddedAndRecomputed ==
    /\ Len(log) >= 2 /\ pre # <<>>
    /\ Last(log).op = "recompute"
    /\ log[Len(log) - 1].op = "add"
    /\ log[Len(log) - 1].parent = Last(log).id
    /\ IsFolderOf(Last(pre), Last(log).id)
    /\ ~isCollapsedOf(WidgetOf(Last(pre), Last(log).id).data)

\* C11: an Add into an expanded folder F followed by the recomputation of F's height
\* leaves F, at every breakpoint, with a row-span not smaller than the one F had before
\* the Add, also when F had been resized to be taller than its content needs
C11_AddChildKeepsRowSpan ==
    ChildAddedAndRecomputed =>
        \A bp \in BPSet :
            \A h0 \in RowSpans(Last(pre), Last(log).id, bp) :
                \A h1 \in RowSpans(store[activeProjectId], Last(log).id, bp) : h1 >= h0


\* the last operation was the layout report of the nested grid of a folder that is
\* expanded and has a top-level entry
FolderRecomputed ==
    /\ log # <<>>
    /\ Last(log).op = "recompute"
    /\ IsFolderOf(store[activeProjectId], Last(log).id)
    /\ ~isCollapsedOf(WidgetOf(store[activeProjectId], Last(log).id).data)

\* the largest y + h of a nested layout, 0 when it is empty
MaxBottomRow(layout) ==
    LET bottoms == {layout[k].y + layout[k].h : k \in DOMAIN layout} IN
    IF bottoms = {} THEN 0 ELSE CHOOSE b \in bottoms : \A c \in bottoms : c <= b

\* ceil((R*21 + (R-1)*8 + 32 + 60 + 16) / (50 + 16)) for nested content of max bottom row R
RowsForContent(R) ==
    LET px == R * 21 + (R - 1) * 8 + 32 + 60 + 16 IN
    IF px % 66 = 0 THEN px \div 66 ELSE px \div 66 + 1

\* the nested layout of folder F at bp, empty when F has none
NestedLayoutOf(P, F, bp) ==
    LET data == WidgetOf(P, F).data IN
    IF "childrenLayouts" \in DOMAIN data /\ bp \in DOMAIN data.childrenLayouts
    THEN data.childrenLayouts[bp] ELSE <<>>

\* after the recomputation of folder F every top-level entry of F has, at each
\* breakpoint, the row-span the nested content of that breakpoint asks for, with the
\* given floor
RecomputedWithFloor(floor) ==
    LET P == store[activeProjectId]
        F == Last(log).id
    IN  \A bp \in BPSet : \A h \in RowSpans(P, F, bp) :
            LET R == MaxBottomRow(NestedLayoutOf(P, F, bp)) IN
            h = IF R = 0 THEN floor ELSE Max(floor, RowsForContent(R))

C17_CollapsedAtMinimum ==
    LET P == store[activeProjectId] IN
    \A F \in Ids(P) :
        (WidgetOf(P, F).type = "folder" /\ isCollapsedOf(WidgetOf(P, F).data)) =>
            \A bp \in BPSet : \A h \in RowSpans(P, F, bp) : h = WidgetOf(P, F).minH


(***************************************************************************)
(* Widgets and their layout entries                                        *)
(***************************************************************************)
\* every operation invoked so far is of one of the given kinds
OnlyOps(kinds) == \A k \in DOMAIN log : log[k].op \in kinds

\* number of entries of widget id in a layout
EntryCount(layout, id) == Cardinality({k \in DOMAIN layout : layout[k].i = id})

\* the top-level layout of P at bp, empty when there is none
TopLayoutOf(P, bp) == IF bp \in DOMAIN P.layouts THEN P.layouts[bp] ELSE <<>>

\* C13: in every state reached from the empty project by Add, Remove, Copy and
\* ToggleFolder, every widget without parentId has exactly one top-level entry at each
\* of the five breakpoints, and every widget with a parentId has exactly one entry at each
\* breakpoint in the nested layout of its parent folder
C13_OneEntryPerBreakpoint ==
    OnlyOps({"add", "remove", "copy", "toggle"}) =>
        LET P == store[activeProjectId] IN
        \A k \in DOMAIN P.widgets : \A bp \in BPSet :
            IF "parentId" \in DOMAIN P.widgets[k]
            THEN /\ IsFolderOf(P, P.widgets[k].parentId)
                 /\ EntryCount(NestedLayoutOf(P, P.widgets[k].parentId, bp), P.widgets[k].id) = 1
            ELSE EntryCount(TopLayoutOf(P, bp), P.widgets[k].id) = 1


\* ids a layout lists
LayoutIds(layout) == {layout[k].i : k \in DOMAIN layout}

\* C14: in every state reached by Add, Remove, Copy, ToggleFolder, UpdateData and
\* LayoutChange every top-level entry at every breakpoint is of a widget of the widget
\* list (a removed top-level widget leaves no entry behind), and the nested layout of
\* every folder lists, at each breakpoint, exactly the widgets whose parentId is the folder
C14_LayoutsMatchWidgets ==
    OnlyOps({"add", "remove", "copy", "toggle", "deps", "resize"}) =>
        LET P == store[activeProjectId] IN
        /\ \A bp \in DOMAIN P.layouts : LayoutIds(P.layouts[bp]) \subseteq Ids(P)
        /\ \A F \in Ids(P) : WidgetOf(P, F).type = "folder" =>
                \A bp \in BPSet : LayoutIds(NestedLayoutOf(P, F, bp)) = ChildIds(P, F)


\* C15: in every state reached by Add, Remove and Copy every widget that has a parentId F
\* comes with a widget of id F in the same project, and that widget is a folder
C15_ParentIsFolder ==
    OnlyOps({"add", "remove", "copy"}) =>
        LET P == store[activeProjectId] IN
        \A k \in DOMAIN P.widgets :
            "parentId" \in DOMAIN P.widgets[k] => IsFolderOf(P, P.widgets[k].parentId)


(***************************************************************************)
(* Data edits                                                              *)
(***************************************************************************)
\* the step invokes UpdateData: a payload edit (assignedUser left out) or an assignment
UpdateDataStep ==
    /\ Len(log') = Len(log) + 1
    /\ log'[Len(log')].op \in {"deps", "assign"}

\* the payload UpdateData was called with
UpdatePayload(o, w) == IF o.op = "deps" THEN [w.data EXCEPT !.deps = o.deps] ELSE w.data

\* w1 is w0 after UpdateData o: new payload, assignedUser by the tri-state rule, the rest
\* of the widget as it was
UpdatedAs(w1, w0, o) ==
    /\ w1.data = UpdatePayload(o, w0)
    /\ w1.id = w0.id /\ w1.type = w0.type
    /\ w1.minW = w0.minW /\ w1.minH = w0.minH
    /\ ("parentId" \in DOMAIN w1) = ("parentId" \in DOMAIN w0)
    /\ "parentId" \in DOMAIN w0 => w1.parentId = w0.parentId
    /\ IF o.op = "assign"
       THEN "assignedUser" \in DOMAIN w1 /\ w1.assignedUser = o.uid
       ELSE /\ ("assignedUser" \in DOMAIN w1) = ("assignedUser" \in DOMAIN w0)
            /\ "assignedUser" \in DOMAIN w0 => w1.assignedUser = w0.assignedUser

\* C18: UpdateData(id, data, assignedUser) replaces the payload of widget id; with the
\* argument left out the widget's assignedUser stays as it is, with null it becomes null,
\* with a uid it becomes that uid; every other widget, the widget's id, type and parentId,
\* all layouts and every other document are unchanged
C18_UpdateDataTriState ==
    [][UpdateDataStep =>
        LET o == log'[Len(log')]
            P0 == store[activeProjectId]
            P1 == store'[activeProjectId]
        IN  /\ Len(P1.widgets) = Len(P0.widgets)
            /\ \A k \in DOMAIN P0.widgets :
                IF P0.widgets[k].id = o.id
                THEN UpdatedAs(P1.widgets[k], P0.widgets[k], o)
                ELSE P1.widgets[k] = P0.widgets[k]
            /\ P1.layouts = P0.layouts
            /\ \A p \in DOMAIN store \ {activeProjectId} : store'[p] = store[p]
      ]_vars

\* a chart was assigned to a user and its payload was edited afterwards: the assignment
\* stayed and the payload changed
C18_Witness ==
    /\ Len(log) >= 2
    /\ Last(log).op = "deps"
    /\ log[Len(log) - 1] = OpAssign(Last(log).id, "u2")
    /\ WidgetOf(store[activeProjectId], Last(log).id).assignedUser = "u2"
    /\ WidgetOf(store[activeProjectId], Last(log).id).data.deps = Last(log).deps
    /\ Len(store[activeProjectId].widgets) > 1


(***************************************************************************)
(* Pushes                                                                  *)
(***************************************************************************)
\* operations that edit fields or report layouts
FieldEdits == {"deps", "assign", "resize", "recompute", "height"}

\* the step invokes UpdateData, LayoutChange, a children-layout change or a widget-height
\* change, or it delivers a remote snapshot (the one step that leaves the log alone)
FieldEditOrEchoStep ==
    \/ log' = log
    \/ Len(log') = Len(log) + 1 /\ log'[Len(log')].op \in FieldEdits

\* C19: UpdateData, LayoutChange, children-layout change, widget-height change and the
\* delivery of a remote snapshot leave the history stack as it is (nothing is pushed and
\* nothing is removed)
C19_FieldEditsDoNotPush ==
    [][FieldEditOrEchoStep => (history' = history /\ pushed' = pushed)]_vars

\* a layout change and a widget-height change that changed the row-span of a widget were
\* written and echoed, and the history holds the pushes of the mutations and nothing else
C19_Witness ==
    /\ Len(log) >= 2 /\ Synced
    /\ Last(log).op = "height"
    /\ log[Len(log) - 1].op = "resize"
    /\ RowSpans(store[activeProjectId], Last(log).id, "lg") = {Last(log).h}
    /\ history # <<>>
    /\ Len(history) = Cardinality({k \in DOMAIN log : log[k].op \in Mutations})


\* the entry fits the grid: it starts in a column and ends within the column count
FitsGrid(e, cols) == e.x >= 0 /\ e.x + e.w <= cols

\* C32: the layout entry an Add creates satisfies x >= 0 and x + w <= the column count of
\* its grid at every breakpoint, top-level (GRID_COLS) and nested (NESTED_GRID_COLS)
C32_NewEntryWithinColumns ==
    (log # <<>> /\ Last(log).op = "add" /\ activeProjectId \in DOMAIN store) =>
        LET P == store[activeProjectId]
            newId == WidgetIds[nextId - 1]
        IN  \A bp \in BPSet :
                /\ \A k \in DOMAIN layoutAt(P.layouts, bp) :
                        P.layouts[bp][k].i = newId => FitsGrid(P.layouts[bp][k], GRID_COLS[bp])
                /\ \A j \in DOMAIN P.widgets :
                        LET nested == layoutAt(childrenLayoutsOf(P.widgets[j]), bp) IN
                        \A k \in DOMAIN nested :
                            nested[k].i = newId => FitsGrid(nested[k], NESTED_GRID_COLS[bp])


(***************************************************************************)
(* Specification SpecPlace: the placement scan on its own                  *)
(***************************************************************************)
AppIdle ==
    /\ IsState(S0)
    /\ log = <<>>
    /\ fuel = 0
    /\ pre = <<>>

\* column counts of the narrow grids (GRID_COLS.xxs, GRID_COLS.xs / NESTED_GRID_COLS.xxs)
PlaceCols == {GRID_COLS["xxs"], GRID_COLS["xs"]}
RectYs == {0, 1}
RectHs == {1, 2, SCAN_ROW_LIMIT, SCAN_ROW_LIMIT + 1, SCAN_ROW_LIMIT + 2}
RectsFor(c) ==
    {[x |-> x, y |-> y, w |-> w, h |-> h] :
        x \in 0..(c - 1), y \in RectYs, w \in 1..c, h \in RectHs} \cap
    {r \in [x : 0..(c - 1), y : RectYs, w : 1..c, h : RectHs] : r.x + r.w <= c}
\* layouts list distinct rectangles, in one fixed order
RectRank(r) == ((r.x * (SCAN_ROW_LIMIT + 3) + r.w) * (SCAN_ROW_LIMIT + 3) + r.y) * (SCAN_ROW_LIMIT + 3) + r.h
LayoutsFor(c) ==
    {layout \in UNION {[1..k -> RectsFor(c)] : k \in 0..MaxRects} :
        \A k \in 1..(Len(layout) - 1) : RectRank(layout[k]) < RectRank(layout[k + 1])}
\* footprints, the width one column wider than the grid included (nested Add does not clamp)
ItemsFor(c) == [w : 1..(c + 1), h : {1, 2}]

InitPlace ==
    /\ AppIdle
    /\ ProjIdle
    /\ \E c \in PlaceCols : \E layout \in LayoutsFor(c), item \in ItemsFor(c) :
            inp = [layout |-> layout, cols |-> c, item |-> item]
    /\ out = Empty
    /\ pc = "start"

PlaceStep ==
    /\ pc = "start"
    /\ Has(inp, "cols")
    /\ out' = place(inp.item, inp.layout, inp.cols)
    /\ pc' = "done"
    /\ UNCHANGED <<appVars, ghostVars, inp, projVars>>

NextPlace == PlaceStep

SpecPlace == InitPlace /\ [][NextPlace]_vars

\* two rectangles overlap: their x-intervals and their y-intervals both intersect with
\* nonzero length
Overlaps(a, b) ==
    /\ Max(a.x, b.x) < Min(a.x + a.w, b.x + b.w)
    /\ Max(a.y, b.y) < Min(a.y + a.h, b.y + b.h)

NonOverlapping(layout) ==
    \A j, k \in DOMAIN layout : j # k => ~Overlaps(layout[j], layout[k])

PlacedRect == [x |-> out.x, y |-> out.y, w |-> inp.item.w, h |-> inp.item.h]

\* C1: for a layout without overlaps and a footprint no wider than the grid, the cell the
\* scan returns lies within the columns and its rectangle overlaps no rectangle of the layout
C1_PlaceNoOverlap ==
    (pc = "done" /\ Has(inp, "cols") /\ NonOverlapping(inp.layout) /\ inp.item.w <= inp.cols)
        => /\ out.x >= 0
           /\ out.x + inp.item.w <= inp.cols
           /\ \A k \in DOMAIN inp.layout : ~Overlaps(PlacedRect, inp.layout[k])

\* the scan went past two rectangles and placed the footprint to the right of and below
\* the origin
C1_Witness ==
    /\ pc = "done" /\ Has(inp, "cols")
    /\ Len(inp.layout) = 2 /\ NonOverlapping(inp.layout)
    /\ inp.item.w <= inp.cols
    /\ out.x > 0 /\ out.y > 0

\* no cell of rows 0..lastRow is free for the footprint
NoFreeCellThrough(lastRow) ==
    \A y \in 0..lastRow : \A x \in 0..(inp.cols - inp.item.w) :
        \E k \in DOMAIN inp.layout :
            Overlaps([x |-> x, y |-> y, w |-> inp.item.w, h |-> inp.item.h], inp.layout[k])

\* the largest bottom edge y + h of the layout, 0 when it is empty
BottomEdge ==
    IF inp.layout = <<>> THEN 0
    ELSE LET bottoms == {inp.layout[k].y + inp.layout[k].h : k \in DOMAIN inp.layout}
         IN  CHOOSE b \in bottoms : \A c \in bottoms : c <= b

\* C2 as stated: a layout with no free cell in the first 200 rows (rows 0..199) gets the
\* fallback cell
C2_FallbackAfter200Rows ==
    (pc = "done" /\ Has(inp, "cols") /\ NoFreeCellThrough(SCAN_ROW_LIMIT - 1))
        => out = [x |-> 0, y |-> BottomEdge]

\* C2 amended: the scan always ends; a layout with no free cell in rows 0..200 (201 rows)
\* gets the fallback cell x = 0, y = largest bottom edge, and the fallback rectangle
\* overlaps no rectangle of the layout
C2_FallbackAfter201Rows ==
    /\ (pc = "start" /\ Has(inp, "cols")) => ENABLED PlaceStep
    /\ (pc = "done" /\ Has(inp, "cols") /\ NoFreeCellThrough(SCAN_ROW_LIMIT))
            => /\ out = [x |-> 0, y |-> BottomEdge]
               /\ \A k \in DOMAIN inp.layout : ~Overlaps(PlacedRect, inp.layout[k])

\* the scan ran out of rows on a layout whose rectangles end at different rows
C2_Witness ==
    /\ pc = "done" /\ Has(inp, "cols")
    /\ NoFreeCellThrough(SCAN_ROW_LIMIT)
    /\ inp.item.w <= inp.cols
    /\ Len(inp.layout) = 2
    /\ inp.layout[1].y + inp.layout[1].h # inp.layout[2].y + inp.layout[2].h
    /\ out.y > SCAN_ROW_LIMIT

\* the cells <<y, x>> of rows 0..lastRow, x from 0 to cols - w, where the footprint overlaps
\* no rectangle of the layout
FreeCells(lastRow) ==
    {c \in (0..lastRow) \X (0..(inp.cols - inp.item.w)) :
        \A k \in DOMAIN inp.layout :
            ~Overlaps([x |-> c[2], y |-> c[1], w |-> inp.item.w, h |-> inp.item.h], inp.layout[k])}

\* the first cell of a set in top-to-bottom, left-to-right order
FirstCell(cells) ==
    CHOOSE c \in cells : \A d \in cells : c[1] < d[1] \/ (c[1] = d[1] /\ c[2] <= d[2])

\* the scan accepts cells of rows 0..SCAN_ROW_LIMIT with x <= cols - w only: a result
\* below that row, or any result for a footprint wider than the grid, is the fallback
FallbackReturned == inp.item.w > inp.cols \/ out.y > SCAN_ROW_LIMIT

\* C28: when a free cell exists within the first 200 rows, the scan returns the first free
\* cell in top-to-bottom, left-to-right order (x from 0 to cols - w); the fallback cell
\* (0, largest bottom edge) is returned only when no cell of the first 200 rows is free
C28_FirstFreeCellOrFallback ==
    (pc = "done" /\ Has(inp, "cols")) =>
        /\ FreeCells(SCAN_ROW_LIMIT - 1) # {} =>
                LET c == FirstCell(FreeCells(SCAN_ROW_LIMIT - 1))
                IN  out = [x |-> c[2], y |-> c[1]]
        /\ FallbackReturned =>
                /\ out = [x |-> 0, y |-> BottomEdge]
                /\ FreeCells(SCAN_ROW_LIMIT - 1) = {}

\* the scan passed a full row and returned the left cell of a row with two free cells
C28_Witness ==
    /\ pc = "done" /\ Has(inp, "cols")
    /\ inp.layout # <<>>
    /\ FreeCells(SCAN_ROW_LIMIT - 1) # {}
    /\ out.y > 0
    /\ <<out.y, out.x>> \in FreeCells(SCAN_ROW_LIMIT - 1)
    /\ <<out.y, out.x + 1>> \in FreeCells(SCAN_ROW_LIMIT - 1)
    /\ ~FallbackReturned

(***************************************************************************)
(* Sibling rectangles, checked under Spec                                  *)
(***************************************************************************)
\* C16: after any sequence of Add, Copy, Remove and ToggleFolder, each echoed back before
\* the next, no two top-level entries of one breakpoint overlap and no two nested entries
\* of one folder at one breakpoint overlap
C16_SiblingsNeverOverlap ==
    OnlyOps({"add", "copy", "remove", "toggle"}) =>
        LET P == store[activeProjectId] IN
        /\ \A bp \in DOMAIN P.layouts : NonOverlapping(P.layouts[bp])
        /\ \A F \in Ids(P) : WidgetOf(P, F).type = "folder" =>
                \A bp \in BPSet : NonOverlapping(NestedLayoutOf(P, F, bp))


(***************************************************************************)
(* Specification SpecSan: the sanitizer on its own                         *)
(***************************************************************************)
\* a field that is absent, or present with one of the values
Choices(f, vals) == {Empty} \cup {f :> v : v \in vals}

\* optional fields of the top-level layout entry and of the nested one; moved is a field
\* of the grid's layout items that is not persisted
TopDecors ==
    {a @@ b @@ c @@ d :
        a \in Choices("minW", {0, 4}), b \in Choices("minH", {0, 2}),
        c \in Choices("static", {FALSE, TRUE}), d \in Choices("isDraggable", {FALSE})}
NestedDecors ==
    {a @@ b @@ c @@ d :
        a \in Choices("maxW", {0, 6}), b \in Choices("maxH", {0}),
        c \in Choices("isResizable", {TRUE}), d \in Choices("moved", {FALSE})}
ChildExtras ==
    {a @@ b : a \in Choices("parentId", {"", NullV, "w1"}),
              b \in Choices("assignedUser", {NullV, "u2"})}
Currents == {"0", "NaN"}

\* a folder with one nested entry and a child widget; createdAt and selected are not
\* fields of the schema
SanProject(top, nested, extras, current) ==
    [ id |-> "p1", name |-> "project", emoji |-> "e", isTeamProject |-> FALSE,
      owner_uid |-> user, member_uids |-> Empty, participant_uids |-> <<user>>,
      createdAt |-> "t",
      widgets |->
        << [ id |-> "w1", type |-> "folder", minW |-> 4, minH |-> 2, selected |-> TRUE,
             data |-> [ title |-> "folder", isCollapsed |-> FALSE,
                        childrenLayouts |->
                            [bp \in {"lg"} |->
                                <<[i |-> "w2", x |-> 0, y |-> 0, w |-> 8, h |-> 4] @@ nested>>] ] ],
           [ id |-> "w2", type |-> "plan", minW |-> 4, minH |-> 2,
             data |-> [title |-> "plan", current |-> current] ] @@ extras >>,
      layouts |-> [bp \in {"lg"} |-> <<[i |-> "w1", x |-> 0, y |-> 0, w |-> 6, h |-> 4] @@ top>>] ]

\* a document without the widget list
BrokenProject == [id |-> "p1", name |-> "project", layouts |-> Empty]

SanInputs ==
    {NullProject, BrokenProject} \cup
    {SanProject(top, nested, extras, current) :
        top \in TopDecors, nested \in NestedDecors, extras \in ChildExtras, current \in Currents}

InitSan ==
    /\ AppIdle
    /\ ProjIdle
    /\ \E p \in SanInputs : inp = [project |-> p]
    /\ out = Empty
    /\ pc = "start"

SanStep ==
    /\ pc = "start"
    /\ Has(inp, "project")
    /\ out' = safeDeepClone(inp.project)
    /\ pc' = "done"
    /\ UNCHANGED <<appVars, ghostVars, inp, projVars>>

NextSan == SanStep

SpecSan == InitSan /\ [][NextSan]_vars

SeedHist == <<OpAdd("folder", NullV)>>

InitHist ==
    /\ IsState(runFrom(S0Two, SeedHist, 1))
    /\ log = SeedHist
    /\ fuel = 0
    /\ pre = <<>>
    /\ PureIdle
    /\ ProjIdle

\* operations of the given kind in the log
CountOps(name) == Cardinality({k \in DOMAIN log : log[k].op = name})

\* drag and resize stops are counted by pushed and leave the log alone
Quiet(S) ==
    /\ Becomes(S)
    /\ UNCHANGED <<ghostVars, pureVars, projVars>>

Logged(S, o) ==
    /\ Becomes(S)
    /\ log' = Append(log, o)
    /\ UNCHANGED <<fuel, pre, pureVars, projVars>>

EchoWrite ==
    /\ ~Synced
    /\ Becomes(onProjectsSnapshot(Cur))
    /\ UNCHANGED <<ghostVars, pureVars, projVars>>

DragStop == Synced /\ Len(pushed) < MaxPushes /\ Quiet(handleDragStop(Cur))

ResizeStop == Synced /\ Len(pushed) < MaxPushes /\ Quiet(handleResizeStop(Cur))

CollapseOrExpand ==
    /\ Synced
    /\ Len(pushed) < MaxPushes
    /\ CountOps("toggle") < MaxToggles
    /\ \E id \in LocalIdsOfType("folder") : Logged(handleToggleFolder(Cur, id), OpToggle(id))

SwitchProject ==
    /\ Synced
    /\ CountOps("select") < MaxSelects
    /\ \E k \in DOMAIN projects :
        /\ projects[k].id # activeProjectId
        /\ Logged(selectProject(Cur, projects[k].id), OpSelect(projects[k].id))

UndoLast == Synced /\ CountOps("undo") < MaxUndos /\ Logged(handleUndo(Cur), OpUndo)

NextHist ==
    \/ EchoWrite
    \/ DragStop
    \/ CollapseOrExpand
    \/ ResizeStop
    \/ SwitchProject
    \/ UndoLast

SpecHist == InitHist /\ [][NextHist]_vars

\* the last n entries of s, all of s when it is shorter
LastN(s, n) == SubSeq(s, Max(1, Len(s) - n + 1), Len(s))

\* C5: the history never holds more than 20 entries, and as long as no Undo was invoked
\* it holds the last 20 entries pushed (all of them when fewer were pushed), in push
\* order, whatever projects they are of
C5_HistoryCappedFifo ==
    /\ Len(history) <= MAX_HISTORY_LENGTH
    /\ CountOps("undo") = 0 => history = LastN(pushed, MAX_HISTORY_LENGTH)

\* more than 21 pushes without an Undo: entries of both projects were evicted and
\* entries of both projects are left
C5_Witness ==
    /\ CountOps("undo") = 0
    /\ Len(pushed) > MAX_HISTORY_LENGTH + 1
    /\ Len(history) = MAX_HISTORY_LENGTH
    /\ pushed[1].projectId # pushed[2].projectId
    /\ history[1].projectId # history[MAX_HISTORY_LENGTH].projectId
    /\ \E j, k \in DOMAIN history :
        /\ history[j].projectId = history[k].projectId
        /\ history[j].projectState # history[k].projectState

(***************************************************************************)
(* Specification SpecPush: the operations that push, each followed by the  *)
(* echo of its write                                                       *)
(***************************************************************************)
StopDrag == Ready /\ Do(handleDragStop(Cur), OpDragStop)

StopResize == Ready /\ Do(handleResizeStop(Cur), OpResizeStop)

NextPush ==
    \/ DeliverSnapshot
    \/ AddWidget
    \/ RemoveWidget
    \/ CopyWidget
    \/ ToggleFolder
    \/ StopDrag
    \/ StopResize

SpecPush == Init /\ [][NextPush]_vars

\* operations that push a snapshot
PushingOps == Mutations \cup {"dragstop", "resizestop"}

\* the step invokes Add, Remove, Copy, ToggleFolder, a drag stop or a resize stop
PushingStep == Len(log') = Len(log) + 1 /\ log'[Len(log')].op \in PushingOps

\* the handler passes its guards: the user may edit and there is an active project
Accepted == isEditableOverall(Cur) /\ activeProject(Cur) # NullProject

\* the entry of the local active project as it is before the operation
PreOpEntry ==
    [projectId |-> activeProjectId, projectState |-> safeDeepClone(activeProject(Cur))]

\* C20: every accepted Add, Remove, Copy, ToggleFolder, drag stop and resize stop pushes
\* exactly one history entry, {active project id, sanitized clone of the local project as
\* it was before the operation}; the write of the operation, if any, is of the same step
\* and the entry is not of the written project
C20_PushBeforeMutate ==
    [][(PushingStep /\ Accepted) =>
            /\ pushed' = Append(pushed, PreOpEntry)
            /\ history' = appendCapped(history, PreOpEntry)]_vars

\* a mutation changed the project and was echoed, then a drag stop pushed: the two newest
\* entries are the project before the mutation and the project after it
C20_Witness ==
    /\ Len(log) >= 2 /\ pre # <<>> /\ Len(history) >= 2
    /\ Last(log).op = "dragstop"
    /\ log[Len(log) - 1].op \in Mutations
    /\ Synced /\ activeProject(Cur) # NullProject
    /\ Last(history) = [projectId |-> activeProjectId,
                        projectState |-> safeDeepClone(activeProject(Cur))]
    /\ history[Len(history) - 1] = [projectId |-> activeProjectId,
                                    projectState |-> safeDeepClone(Last(pre))]
    /\ Last(history) # history[Len(history) - 1]

(***************************************************************************)
(* Specification SpecProj: the project list of one user in two browser     *)
(* tabs: snapshots, the active project id, creation and deletion of        *)
(* project documents                                                       *)
(***************************************************************************)
Tabs == {1, 2}
MaxProjOps == 2     \* project selections and deletions the user makes in a run
SeedDocs == 2       \* project documents a run may start with (p1, p2)

\* a team project of another user in which the user is an editor
sharedProjectData ==
    [ name |-> "team", emoji |-> "e", isTeamProject |-> TRUE, owner_uid |-> "u2",
      member_uids |-> [u \in {user} |-> "editor"], participant_uids |-> <<"u2", user>>,
      widgets |-> <<>>, layouts |-> Empty ]

NoDocs == [id \in {} |-> newProjectData]

\* the project documents a run starts with
StoreSeeds ==
    { NoDocs,
      [id \in {"p1"} |-> newProjectData],
      [id \in {"p1", "p2"} |-> newProjectData],
      [id \in {"p1", "p2"} |-> IF id = "p1" THEN newProjectData ELSE sharedProjectData],
      [id \in {"p1", "p2"} |-> IF id = "p2" THEN newProjectData ELSE sharedProjectData] }

\* a tab after its first render: no snapshot yet, Effect 2 has run on the empty list
NewTab ==
    [ projects |-> <<>>, activeProjectId |-> NullV, history |-> <<>>, loaded |-> FALSE,
      checking |-> 0, creating |-> 0, selecting |-> {}, lost |-> NullV ]

\* the client state of tab t
TabCur(t) ==
    [ store |-> store, projects |-> tabs[t].projects,
      activeProjectId |-> tabs[t].activeProjectId, history |-> tabs[t].history,
      nextId |-> nextId, pushed |-> pushed ]

\* tab t is left in client state S, its other fields as in rest
TabBecomes(t, S, rest) ==
    /\ store' = S.store
    /\ pushed' = S.pushed
    /\ tabs' = [tabs EXCEPT ![t] =
                    [rest EXCEPT !.projects = S.projects,
                                 !.activeProjectId = S.activeProjectId,
                                 !.history = S.history]]

\* both tabs open, ops operations of the user to come
ProjStart(ops) ==
    /\ store \in StoreSeeds
    /\ tabs = [t \in Tabs |-> NewTab]
    /\ signup \in IF store = NoDocs THEN {"pending", "none"} ELSE {"none"}
    /\ created = <<>>
    /\ calls = <<>>
    /\ projects = <<>> /\ activeProjectId = NullV /\ history = <<>>
    /\ nextId = 1 /\ pushed = <<>>
    /\ log = <<>> /\ pre = <<>>
    /\ fuel = ops
    /\ PureIdle

InitProj == ProjStart(MaxProjOps)

listed(projs, id) == \E k \in DOMAIN projs : projs[k].id = id

\* the projects query of tab t delivers a snapshot; Effect 2 reconciles the active id and
\* the auto-create effect calls handleAddProject on an empty list, which first awaits
\* its getDocs check
ProjDeliver(t) ==
    LET S == onProjectsSnapshot(TabCur(t))
        prev == tabs[t].activeProjectId
    IN  /\ ~tabs[t].loaded \/ queryProjects(TabCur(t)) # tabs[t].projects
        /\ TabBecomes(t, S,
                [tabs[t] EXCEPT !.loaded = TRUE,
                                !.checking = IF Len(S.projects) = 0 THEN @ + 1 ELSE @,
                                !.lost = IF prev # NullV /\ ~listed(S.projects, prev)
                                         THEN prev ELSE NullV])
        /\ UNCHANGED <<projects, activeProjectId, history, nextId, ghostVars, pureVars,
                       signup, created, calls>>

\* getDocs of handleAddProject returns: the call aborts when the server holds a project
\* of the user, and goes on to addDoc otherwise
ProjCheck(t) ==
    /\ tabs[t].checking > 0
    /\ tabs' = [tabs EXCEPT ![t] =
                    [@ EXCEPT !.checking = @ - 1,
                              !.creating = IF Len(queryProjects(TabCur(t))) = 0
                                           THEN @ + 1 ELSE @]]
    /\ UNCHANGED <<appVars, ghostVars, pureVars, signup, created, calls>>

\* the id addDoc gives the next document
freshProjectId == ProjectIds[SeedDocs + Len(created) + 1]

\* addDoc(collection(db, "projects"), data)
addDoc(st, id, data) == [k \in DOMAIN st \cup {id} |-> IF k = id THEN data ELSE st[k]]

\* addDoc of handleAddProject commits; pushStateToHistory of the call pushed nothing, the
\* callback is of a render without an active project
ProjCreate(t) ==
    /\ tabs[t].creating > 0
    /\ SeedDocs + Len(created) < Len(ProjectIds)
    /\ store' = addDoc(store, freshProjectId, newProjectData)
    /\ created' = Append(created, freshProjectId)
    /\ tabs' = [tabs EXCEPT ![t] =
                    [@ EXCEPT !.creating = @ - 1,
                              !.selecting = @ \cup {freshProjectId}]]
    /\ UNCHANGED <<projects, activeProjectId, history, nextId, pushed, ghostVars, pureVars,
                   signup, calls>>

\* setActiveProjectId(newProjectRef.id) of handleAddProject, then Effect 2
ProjSelectNew(t) ==
    \E id \in tabs[t].selecting :
        /\ TabBecomes(t, manageActiveProject(selectProject(TabCur(t), id)),
                      [tabs[t] EXCEPT !.selecting = @ \ {id}])
        /\ UNCHANGED <<projects, activeProjectId, history, nextId, ghostVars, pureVars,
                       signup, created, calls>>

\* register creates the default project of the new user
ProjRegister ==
    /\ signup = "pending"
    /\ SeedDocs + Len(created) < Len(ProjectIds)
    /\ signup' = "done"
    /\ store' = addDoc(store, freshProjectId, newProjectData)
    /\ created' = Append(created, freshProjectId)
    /\ UNCHANGED <<projects, activeProjectId, history, nextId, pushed, ghostVars, pureVars,
                   tabs, calls>>

\* the user makes an operation in tab t that leaves the tab in client state S
ProjDo(t, S) ==
    /\ TabBecomes(t, S, tabs[t])
    /\ fuel' = fuel - 1
    /\ UNCHANGED <<projects, activeProjectId, history, nextId, log, pre, pureVars,
                   signup, created, calls>>

\* onProjectSelect of the sidebar, then Effect 2
ProjSelect(t) ==
    /\ fuel > 0
    /\ activeProject(TabCur(t)) # NullProject
    /\ \E k \in DOMAIN tabs[t].projects :
        /\ tabs[t].projects[k].id # tabs[t].activeProjectId
        /\ ProjDo(t, manageActiveProject(selectProject(TabCur(t), tabs[t].projects[k].id)))

\* deleteDoc(doc(db, 'projects', id))
deleteDoc(S, id) == [S EXCEPT !.store = [k \in DOMAIN S.store \ {id} |-> S.store[k]]]

handleRemoveProject(S, id) ==
    LET S1 == pushStateToHistory(S) IN
    IF currentUserRole(S) # "owner" THEN S
    ELSE IF id \notin DOMAIN S1.store THEN S1
    ELSE deleteDoc(S1, id)

\* the sidebar is rendered when there is an active project; its menu offers the delete
\* button on every project of the list when isOwner and projects.length > 1
ProjDelete(t) ==
    /\ fuel > 0
    /\ activeProject(TabCur(t)) # NullProject
    /\ currentUserRole(TabCur(t)) = "owner"
    /\ Len(tabs[t].projects) > 1
    /\ \E k \in DOMAIN tabs[t].projects :
        ProjDo(t, handleRemoveProject(TabCur(t), tabs[t].projects[k].id))

NextProj ==
    \/ \E t \in Tabs : ProjDeliver(t)
    \/ \E t \in Tabs : ProjCheck(t)
    \/ \E t \in Tabs : ProjCreate(t)
    \/ \E t \in Tabs : ProjSelectNew(t)
    \/ ProjRegister
    \/ \E t \in Tabs : ProjSelect(t)
    \/ \E t \in Tabs : ProjDelete(t)

SpecProj == InitProj /\ [][NextProj]_vars

\* the active id of tab record new is reconciled with its list, prev being the id before
Reconciled(prev, new) ==
    IF Len(new.projects) = 0 THEN new.activeProjectId = NullV
    ELSE IF listed(new.projects, prev) THEN new.activeProjectId = prev
    ELSE new.activeProjectId = new.projects[1].id

\* a snapshot is delivered to tab t
Delivered(t) == tabs'[t].projects # tabs[t].projects \/ tabs'[t].loaded # tabs[t].loaded

\* C21: after the reconciliation has run on a delivered list, the active id is the id of a
\* project of the list when the list is not empty (the previous id when it is still
\* listed, the first project of the list otherwise) and null when the list is empty
C21_ActiveReconciled ==
    [][\A t \in DOMAIN tabs :
            Delivered(t) =>
                /\ Reconciled(tabs[t].activeProjectId, tabs'[t])
                /\ Len(tabs'[t].projects) > 0 =>
                        listed(tabs'[t].projects, tabs'[t].activeProjectId)]_vars

\* the active project of one tab was deleted and the tab fell back to the first project
\* left in its list; in the other tab the list became empty and the active id null
C21_Witness ==
    /\ DOMAIN tabs = Tabs
    /\ \E t \in Tabs :
        /\ tabs[t].lost # NullV /\ tabs[t].lost \notin DOMAIN store
        /\ Len(tabs[t].projects) > 0
        /\ tabs[t].activeProjectId = tabs[t].projects[1].id
    /\ \E t \in Tabs :
        /\ tabs[t].lost # NullV
        /\ Len(tabs[t].projects) = 0
        /\ tabs[t].activeProjectId = NullV

\* the effects and the calls of handleAddProject and register, with no operation of the
\* user in between
InitProjLive == ProjStart(0)

NextProjLive ==
    \/ \E t \in Tabs : ProjDeliver(t)
    \/ \E t \in Tabs : ProjCheck(t)
    \/ \E t \in Tabs : ProjCreate(t)
    \/ \E t \in Tabs : ProjSelectNew(t)
    \/ ProjRegister

\* store reads, writes and snapshot deliveries are scheduled fairly
SpecProjLive ==
    /\ InitProjLive /\ [][NextProjLive]_vars
    /\ \A t \in Tabs :
        /\ WF_vars(ProjDeliver(t))
        /\ WF_vars(ProjCheck(t))
        /\ WF_vars(ProjCreate(t))
        /\ WF_vars(ProjSelectNew(t))
    /\ WF_vars(ProjRegister)

\* the empty list was delivered to tab t
EmptyListDelivered(t) == tabs[t].loaded /\ Len(tabs[t].projects) = 0

\* the store holds a project of the user and tab t has an active project id
HasProjectAndActive(t) ==
    /\ Len(queryProjects(TabCur(t))) > 0
    /\ tabs[t].activeProjectId # NullV

\* C22: under fair scheduling of store reads, writes and snapshot deliveries, a user
\* whose delivered project list is empty eventually has a project and an active project
\* id that is not null
C22_EmptyListLeadsToProject ==
    \A t \in Tabs : EmptyListDelivered(t) ~> HasProjectAndActive(t)

\* a user without a project and without a pending register: one tab created the default
\* project, both tabs received it and made it their active project, no call is in flight
C22_Witness ==
    /\ DOMAIN tabs = Tabs
    /\ signup = "none"
    /\ Len(created) = 1 /\ DOMAIN store = {created[1]}
    /\ \A t \in Tabs :
        /\ HasProjectAndActive(t)
        /\ tabs[t].activeProjectId = created[1]
        /\ listed(tabs[t].projects, created[1])
        /\ tabs[t].checking = 0 /\ tabs[t].creating = 0 /\ tabs[t].selecting = {}

\* C26: a delete request deletes the project document only if the current user is the
\* owner of that project, whichever project is active
C26_DeleteOnlyByOwner ==
    [][\A id \in DOMAIN store : id \notin DOMAIN store' => store[id].owner_uid = user]_vars


\* the default projects created so far (by the auto-create path or by register) that are
\* in the store
defaultProjects == {id \in DOMAIN store : \E k \in DOMAIN created : created[k] = id}

\* C29: when creators run concurrently for a user without a project, the existence check
\* made before creation prevents a duplicate: at most one default project is created
C29_AtMostOneDefaultProject == Cardinality(defaultProjects) <= 1


(***************************************************************************)
(* Specification SpecRace: one client whose operations do not wait for the *)
(* echo of the previous write, ids that name no widget, and a project      *)
(* document that another client deletes                                    *)
(***************************************************************************)
MaxRaceOps == 2     \* operations invoked in a run of the race specification

\* an id uuidv4 never hands out in a run
AbsentId == WidgetIds[Len(WidgetIds)]

InitRace ==
    \E sd \in Seeds :
        /\ IsState(runFrom(SeedBase(sd), sd, 1))
        /\ log = sd
        /\ fuel = MaxRaceOps
        /\ pre = <<>>
        /\ PureIdle
        /\ ProjIdle

\* the ids a stale menu or a late callback may pass: the local ones and one that is absent
PassedIds == LocalIds \cup {AbsentId}

HasLocalProject == fuel > 0 /\ activeProject(Cur) # NullProject

RaceAdd ==
    /\ HasLocalProject
    /\ nextId <= MaxIds
    /\ \E type \in WidgetTypes, parent \in {NullV, AbsentId} \cup LocalOpenFolders :
        Do(handleAddWidget(Cur, type, parent), OpAdd(type, parent))

RaceRemove == HasLocalProject /\ \E id \in PassedIds : Do(handleRemoveWidget(Cur, id), OpRemove(id))

RaceCopy ==
    /\ HasLocalProject
    /\ \E id \in PassedIds :
        /\ id \in LocalIds =>
            nextId + Len(widgetsToCopyOf(activeProject(Cur).widgets, id)) - 1 <= MaxIds
        /\ Do(handleCopyWidget(Cur, id), OpCopy(id))

RaceToggle == HasLocalProject /\ \E id \in PassedIds : Do(handleToggleFolder(Cur, id), OpToggle(id))

\* the payload an editor saves: the one the widget has, or the one of a widget that is gone
payloadOf(id) ==
    IF id \in LocalIds THEN widgetById(activeProject(Cur), id).data ELSE [title |-> "gone"]

RaceUpdateData ==
    /\ HasLocalProject
    /\ \E id \in PassedIds :
        Do(handleUpdateWidgetData(Cur, id, payloadOf(id), [v |-> "u2"]), OpAssign(id, "u2"))

RaceLayoutChange ==
    /\ HasLocalProject
    /\ \E bp \in ResizeBPs \cap DOMAIN activeProject(Cur).layouts :
        \E k \in DOMAIN activeProject(Cur).layouts[bp] :
            LET layout == activeProject(Cur).layouts[bp]
                others == SelectSeq(layout, LAMBDA l : l.i # layout[k].i)
            IN  /\ ~isColliding([layout[k] EXCEPT !.h = @ + 1], others)
                /\ Do(reportResize(Cur, bp, layout[k].i), OpResize(bp, layout[k].i))

\* the nested layouts a folder grid reports: the ones the folder has, none for a folder
\* that is gone
reportedChildren(id) ==
    IF id \in LocalIds THEN childrenLayoutsOf(widgetById(activeProject(Cur), id)) ELSE Empty

RaceChildrenLayout ==
    /\ HasLocalProject
    /\ \E id \in LocalIdsOfType("folder") \cup {AbsentId} :
        Do(handleChildrenLayoutChange(Cur, id, reportedChildren(id)), OpRecompute(id))

\* another client deletes the document of the active project
RemoteDelete ==
    /\ activeProjectId \in DOMAIN store
    /\ store' = [k \in DOMAIN store \ {activeProjectId} |-> store[k]]
    /\ UNCHANGED <<projects, activeProjectId, history, nextId, pushed, ghostVars, pureVars,
                   projVars>>

NextRace ==
    \/ DeliverSnapshot
    \/ RaceAdd
    \/ RaceRemove
    \/ RaceCopy
    \/ RaceToggle
    \/ RaceUpdateData
    \/ RaceLayoutChange
    \/ RaceChildrenLayout
    \/ RemoteDelete

SpecRace == InitRace /\ [][NextRace]_vars

\* C23: the local project list changes only when a snapshot is delivered and is then
\* exactly what the query holds; no operation changes it, whether its write is accepted
\* or rejected, and nothing of the list as it was is kept
C23_LocalViewOnlyFromSnapshots ==
    [][/\ log' # log => projects' = projects
       /\ projects' # projects => (log' = log /\ projects' = queryProjects(Cur))]_vars

\* a mutation pushed its snapshot and issued its write, the document of the project is
\* gone from the store, and the local project is still as it was before the mutation
C23_Witness ==
    /\ pre # <<>> /\ pushed # <<>>
    /\ Last(log).op \in Mutations
    /\ activeProject(Cur) # NullProject
    /\ activeProject(Cur) = Last(pre)
    /\ activeProjectId \notin DOMAIN store
    /\ Last(pushed).projectState = safeDeepClone(Last(pre))
    /\ Len(Last(pre).widgets) > 0

\* operation o names a widget (for Add: a parent, for ToggleFolder: a folder) that the
\* local project does not hold
NamesAbsent(o) ==
    \/ o.op = "add" /\ o.parent # NullV /\ o.parent \notin LocalIds
    \/ o.op \in {"remove", "copy", "assign", "recompute"} /\ o.id \notin LocalIds
    \/ o.op = "toggle" /\ o.id \notin LocalIdsOfType("folder")

\* the step invokes an operation with an id that names no widget
AbsentIdStep == Len(log') = Len(log) + 1 /\ NamesAbsent(log'[Len(log')])

\* C24: Add with a parent id that names no widget, Remove, Copy, UpdateData and
\* ToggleFolder with an id that names no widget (no folder, for ToggleFolder) and a
\* children-layout change for an absent folder leave the widgets and layouts of the remote
\* project as they were before the call
C24_AbsentIdLeavesRemote ==
    [][AbsentIdStep => store' = store]_vars

\* the last two operations are top-level Adds computed from the same local project (no
\* snapshot was delivered in between), and the document both wrote to is in the store
TwoAddsFromOneBase ==
    /\ Len(log) >= 2 /\ Len(pre) >= 2
    /\ Last(log).op = "add" /\ Last(log).parent = NullV
    /\ log[Len(log) - 1].op = "add" /\ log[Len(log) - 1].parent = NullV
    /\ pre[Len(pre)] = pre[Len(pre) - 1]
    /\ Last(pre) # NullProject
    /\ activeProjectId = Last(pre).id
    /\ activeProjectId \in DOMAIN store

idsOf(items) == {items[k].id : k \in DOMAIN items}
entryIdsOf(layouts) == UNION {{layouts[bp][k].i : k \in DOMAIN layouts[bp]} : bp \in DOMAIN layouts}

\* C27: when two writes computed from the same base both commit, the remote project holds
\* the effect of the later write only: each write replaces the whole widgets and layouts
\* fields, so the widget and the layout entries of the earlier Add are lost
C27_LaterWriteWins ==
    TwoAddsFromOneBase =>
        LET remote == store[activeProjectId]
            earlier == WidgetIds[nextId - 2]
            later == WidgetIds[nextId - 1]
        IN  /\ idsOf(remote.widgets) = idsOf(Last(pre).widgets) \cup {later}
            /\ earlier \notin idsOf(remote.widgets)
            /\ earlier \notin entryIdsOf(remote.layouts)
            /\ later \in entryIdsOf(remote.layouts)

\* two Adds were issued on a project with widgets before the echo of the first arrived,
\* both were written, and the snapshot delivered afterwards shows the later widget only
C27_Witness ==
    /\ TwoAddsFromOneBase
    /\ Synced
    /\ Len(Last(pre).widgets) > 0
    /\ Len(activeProject(Cur).widgets) = Len(Last(pre).widgets) + 1
    /\ WidgetIds[nextId - 1] \in idsOf(activeProject(Cur).widgets)
    /\ WidgetIds[nextId - 2] \notin idsOf(activeProject(Cur).widgets)


\* the step is a ToggleFolder invoked on a client whose view is the stored project
SyncedToggleStep ==
    /\ log' # log /\ Last(log').op = "toggle"
    /\ Synced
    /\ activeProjectId \in DOMAIN store

IsFolderIn(P, id) == \E k \in DOMAIN P.widgets : P.widgets[k].id = id /\ P.widgets[k].type = "folder"

\* C33: ToggleFolder(id) of a folder flips the isCollapsed of that folder, may set its
\* expandedH, and changes only the h of the folder's top-level entries; every other widget,
\* every other entry and the x, y, w of the folder's entries stay as they were.  When id
\* is not a folder, nothing is written
C33_ToggleFrame ==
    [][SyncedToggleStep =>
        LET id == Last(log').id
            P0 == store[activeProjectId]
            P1 == store'[activeProjectId]
        IN  IF IsFolderIn(P0, id)
            THEN /\ [P1 EXCEPT !.widgets = P0.widgets, !.layouts = P0.layouts] = P0
                 /\ Len(P1.widgets) = Len(P0.widgets)
                 /\ \A k \in DOMAIN P0.widgets :
                        LET w0 == P0.widgets[k]
                            w1 == P1.widgets[k]
                        IN  IF w0.id = id
                            THEN /\ isCollapsedOf(w1.data) = ~isCollapsedOf(w0.data)
                                 /\ [w1 EXCEPT !.data = w0.data] = w0
                                 /\ DOMAIN w1.data \subseteq DOMAIN w0.data \cup {"isCollapsed", "expandedH"}
                                 /\ \A f \in DOMAIN w0.data \ {"isCollapsed", "expandedH"} :
                                        f \in DOMAIN w1.data /\ w1.data[f] = w0.data[f]
                            ELSE w1 = w0
                 /\ DOMAIN P1.layouts = DOMAIN P0.layouts
                 /\ \A bp \in DOMAIN P0.layouts :
                        /\ Len(P1.layouts[bp]) = Len(P0.layouts[bp])
                        /\ \A k \in DOMAIN P0.layouts[bp] :
                                LET e0 == P0.layouts[bp][k]
                                    e1 == P1.layouts[bp][k]
                                IN  IF e0.i = id THEN [e1 EXCEPT !.h = e0.h] = e0 ELSE e1 = e0
            ELSE store' = store]_vars

\* the folder of a project with a plan beside it was collapsed: its entries got a new h,
\* the entry of the plan is where it was
C33_Witness ==
    /\ log = Append(SeedFolder, OpToggle("w2"))
    /\ activeProjectId \in DOMAIN store
    /\ LET P == store[activeProjectId]
       IN  /\ isCollapsedOf(widgetById(P, "w2").data)
           /\ Has(widgetById(P, "w2").data, "expandedH")
           /\ \A bp \in BPSet :
                /\ RowSpans(P, "w2", bp) = {widgetById(P, "w2").minH}
                /\ RowSpans(P, "w1", bp) = {WIDGET_DEFAULTS["plan"].minH}


\* the operation of the step names a target that is not there: Add into a parent that is
\* gone, Copy of a widget that is gone, ToggleFolder of an id that is not a folder
AbsentTargetStep ==
    /\ log' # log
    /\ activeProject(Cur) # NullProject
    /\ LET o == Last(log') IN
       \/ o.op = "add" /\ o.parent # NullV /\ o.parent \notin LocalIds
       \/ o.op = "copy" /\ o.id \notin LocalIds
       \/ o.op = "toggle" /\ ~IsFolderIn(activeProject(Cur), o.id)

\* C38: an operation that writes nothing because its target is absent leaves the history
\* stack as it was
C38_AbsentTargetKeepsHistory ==
    [][(AbsentTargetStep /\ store' = store) => history' = history]_vars


(***************************************************************************)
(* Specification SpecBroken: operations on a project document that         *)
(* cleanProjectForSerialization cannot map                                 *)
(***************************************************************************)
MaxBrokenOps == 2   \* operations invoked in a run of this specification

\* a folder and a plan inside it
brokenWidgets ==
    << [ id |-> "w1", type |-> "folder", minW |-> 4, minH |-> 2,
         data |-> [title |-> "folder", isCollapsed |-> FALSE] ],
       [ id |-> "w2", type |-> "plan", minW |-> 4, minH |-> 2, parentId |-> "w1",
         data |-> [title |-> "plan", current |-> "0"] ] >>

without(doc, field) == [k \in DOMAIN doc \ {field} |-> doc[k]]

\* documents that lack the layouts or the widget list
BrokenDocs ==
    { without([newProjectData EXCEPT !.widgets = brokenWidgets], "layouts"),
      without(newProjectData, "widgets") }

\* the ids the operations are invoked with
BrokenIds == {"w1", "w2"}

InitBroken ==
    /\ \/ \E doc \in BrokenDocs :
            IsState(onProjectsSnapshot(
                [ store |-> [id \in {"p1"} |-> doc], projects |-> <<>>,
                  activeProjectId |-> NullV, history |-> <<>>, nextId |-> 3,
                  pushed |-> <<>> ]))
       \/ IsState(runFrom(S0, SeedNested, 1))
    /\ log = <<>>
    /\ fuel = MaxBrokenOps
    /\ pre = <<>>
    /\ PureIdle
    /\ ProjIdle

BrokenAdd ==
    /\ fuel > 0
    /\ \E parent \in {NullV, "w1"} : Do(handleAddWidget(Cur, "plan", parent), OpAdd("plan", parent))

BrokenRemove == fuel > 0 /\ \E id \in BrokenIds : Do(handleRemoveWidget(Cur, id), OpRemove(id))

BrokenCopy == fuel > 0 /\ \E id \in BrokenIds : Do(handleCopyWidget(Cur, id), OpCopy(id))

BrokenToggle == fuel > 0 /\ \E id \in BrokenIds : Do(handleToggleFolder(Cur, id), OpToggle(id))

BrokenChildrenLayout ==
    fuel > 0 /\ Do(handleChildrenLayoutChange(Cur, "w1", Empty), OpRecompute("w1"))

NextBroken ==
    \/ DeliverSnapshot
    \/ BrokenAdd
    \/ BrokenRemove
    \/ BrokenCopy
    \/ BrokenToggle
    \/ BrokenChildrenLayout

SpecBroken == InitBroken /\ [][NextBroken]_vars

\* safeDeepClone of the local active project returns null
CloneFails ==
    activeProject(Cur) # NullProject /\ safeDeepClone(activeProject(Cur)) = NullProject

MaxFolderOps == 3

OpChildResize(id, bp, child) == [op |-> "childresize", id |-> id, bp |-> bp, child |-> child]

InitFolder ==
    \E sd \in {SeedFolder, SeedNested} :
        /\ IsState(runFrom(S0, sd, 1))
        /\ log = sd
        /\ fuel = MaxFolderOps
        /\ pre = <<>>
        /\ PureIdle
        /\ ProjIdle

\* handleResize of the folder: { ...childrenLayouts, [currentBreakpoint]: layout }, the
\* layout of the breakpoint with the child one row taller
grownChildren(ap, id, bp, child) ==
    LET cl == childrenLayoutsOf(widgetById(ap, id))
    IN  [cl EXCEPT ![bp] = setItemH(@, child, @[findItem(@, child)].h + 1)]

FolderToggle ==
    Ready /\ \E id \in LocalIdsOfType("folder") : Do(handleToggleFolder(Cur, id), OpToggle(id))

\* the nested grid lets a child grow only into free rows; it stays mounted, and reports,
\* while the collapse of its folder is animated
FolderChildResize ==
    /\ Ready
    /\ \E id \in LocalIdsOfType("folder") :
        LET cl == childrenLayoutsOf(widgetById(activeProject(Cur), id)) IN
        \E bp \in ResizeBPs \cap DOMAIN cl : \E k \in DOMAIN cl[bp] :
            LET others == SelectSeq(cl[bp], LAMBDA l : l.i # cl[bp][k].i)
            IN  /\ ~isColliding([cl[bp][k] EXCEPT !.h = @ + 1], others)
                /\ Do(handleChildrenLayoutChange(Cur, id,
                            grownChildren(activeProject(Cur), id, bp, cl[bp][k].i)),
                      OpChildResize(id, bp, cl[bp][k].i))

NextFolder ==
    \/ DeliverSnapshot
    \/ FolderToggle
    \/ FolderChildResize

SpecFolder == InitFolder /\ [][NextFolder]_vars

\* the step is a children-layout change of a folder that is collapsed in the local project
CollapsedChildrenStep ==
    /\ log' # log
    /\ Last(log').op = "childresize"
    /\ isCollapsedOf(widgetById(activeProject(Cur), Last(log').id).data)

expandedHOf(w) == IF Has(w.data, "expandedH") THEN <<w.data.expandedH>> ELSE <<>>

\* C30: a children-layout change for a collapsed folder stores the new nested layouts and
\* leaves the folder's top-level row-span at every breakpoint and its expandedH as they were
C30_CollapsedFolderKeepsHeight ==
    [][CollapsedChildrenStep =>
        LET o == Last(log')
            before == activeProject(Cur)
            after == store'[activeProjectId]
        IN  /\ childrenLayoutsOf(widgetById(after, o.id))
                    = cleanAllLayouts(grownChildren(before, o.id, o.bp, o.child))
            /\ childrenLayoutsOf(widgetById(after, o.id))
                    # childrenLayoutsOf(widgetById(before, o.id))
            /\ \A bp \in BPSet : RowSpans(after, o.id, bp) = RowSpans(before, o.id, bp)
            /\ expandedHOf(widgetById(after, o.id)) = expandedHOf(widgetById(before, o.id))
            /\ after.layouts = before.layouts]_vars

\* a folder with children was collapsed, its nested grid then reported a taller child, and
\* the stored folder has the new nested layout and a row-span below the one its children
\* would give it
C30_Witness ==
    /\ Len(log) >= 2
    /\ Last(log).op = "childresize"
    /\ log[Len(log) - 1] = OpToggle(Last(log).id)
    /\ activeProjectId \in DOMAIN store
    /\ LET folder == widgetById(store[activeProjectId], Last(log).id)
       IN  /\ isCollapsedOf(folder.data)
           /\ Has(folder.data, "expandedH")
           /\ \A bp \in BPSet :
                \A h \in RowSpans(store[activeProjectId], Last(log).id, bp) :
                    h < folderHeightFor(layoutAt(childrenLayoutsOf(folder), bp))

(***************************************************************************)
(* Specification SpecRole: one project, the user in each role, the owner   *)
(* changing the membership through the share dialog                        *)
(***************************************************************************)
MaxRoleOps == 3

\* ProjectMemberRole, and NullV for a participant without an entry in member_uids
Roles == {"owner", "editor", "manager", "visitor", NullV}

\* the membership fields of a project of u2 in which the user has the role
sharedAs(role) ==
    [ owner_uid |-> "u2",
      member_uids |-> IF role = NullV THEN Empty ELSE [u \in {user} |-> role],
      participant_uids |-> <<"u2", user>>,
      isTeamProject |-> TRUE ]

\* the session of a page load (empty history) on project S holds, the user in the role
asRole(S, role) ==
    LET doc == IF role = "owner" THEN S.store["p1"] ELSE sharedAs(role) @@ S.store["p1"]
    IN  onProjectsSnapshot([S EXCEPT !.store = [id \in {"p1"} |-> doc],
                                     !.history = <<>>, !.pushed = <<>>])

InitRole ==
    \E role \in Roles :
        /\ IsState(asRole(runFrom(S0, SeedNested, 1), role))
        /\ log = SeedNested
        /\ fuel = MaxRoleOps
        /\ pre = <<>>
        /\ PureIdle
        /\ ProjIdle

\* isWidgetEditable of the widget menu: owner and editor always, a manager on the widgets
\* assigned to them
isWidgetEditable(S, id) ==
    \/ currentUserRole(S) \in {"owner", "editor"}
    \/ /\ currentUserRole(S) = "manager"
       /\ Has(widgetById(activeProject(S), id), "assignedUser")
       /\ widgetById(activeProject(S), id).assignedUser = user

\* the widget type the user adds
RoleTypes == {"plan"}

RoleReady == fuel > 0 /\ Synced /\ activeProject(Cur) # NullProject

RoleAdd ==
    /\ RoleReady
    /\ nextId <= MaxIds
    /\ \E type \in RoleTypes, parent \in {NullV} \cup LocalOpenFolders :
        Do(handleAddWidget(Cur, type, parent), OpAdd(type, parent))

\* the menu offers "remove" on the widgets the user may edit
RoleRemove ==
    /\ RoleReady
    /\ \E id \in LocalIds :
        isWidgetEditable(Cur, id) /\ Do(handleRemoveWidget(Cur, id), OpRemove(id))

\* the menu offers "copy" on every widget, to every user
RoleCopy ==
    /\ RoleReady
    /\ \E id \in LocalIds :
        /\ nextId + Len(widgetsToCopyOf(activeProject(Cur).widgets, id)) - 1 <= MaxIds
        /\ Do(handleCopyWidget(Cur, id), OpCopy(id))

\* the menu offers "assign" on the widgets the user may edit, in a team project
RoleAssign ==
    /\ RoleReady
    /\ activeProject(Cur).isTeamProject
    /\ \E id \in LocalIds :
        isWidgetEditable(Cur, id) /\ Do(assignUser(Cur, id, user), OpAssign(id, user))

RoleToggle ==
    RoleReady /\ \E id \in LocalIdsOfType("folder") : Do(handleToggleFolder(Cur, id), OpToggle(id))

RoleLayoutChange ==
    /\ RoleReady
    /\ \E bp \in ResizeBPs \cap DOMAIN activeProject(Cur).layouts :
        \E k \in DOMAIN activeProject(Cur).layouts[bp] :
            LET layout == activeProject(Cur).layouts[bp]
                others == SelectSeq(layout, LAMBDA l : l.i # layout[k].i)
            IN  /\ ~isColliding([layout[k] EXCEPT !.h = @ + 1], others)
                /\ Do(reportResize(Cur, bp, layout[k].i), OpResize(bp, layout[k].i))

RoleChildrenLayout ==
    /\ RoleReady
    /\ \E id \in LocalIdsOfType("folder") :
        Do(handleChildrenLayoutChange(Cur, id,
                childrenLayoutsOf(widgetById(activeProject(Cur), id))), OpRecompute(id))

RoleDragStop == RoleReady /\ Do(handleDragStop(Cur), OpDragStop)

RoleResizeStop == RoleReady /\ Do(handleResizeStop(Cur), OpResizeStop)

\* the header enables undo when canUndo: an entry of the active project and isEditableOverall
RoleUndo ==
    /\ RoleReady
    /\ lastRelevantIndex(Cur) > 0
    /\ isEditableOverall(Cur)
    /\ Do(handleUndo(Cur), OpUndo)

OpShare(uid, role) == [op |-> "share", uid |-> uid, role |-> role]

\* updates of the share dialog: handleInvite / handleRoleChange write member_uids.uid,
\* arrayUnion the participant and set isTeamProject; handleRemoveUser deletes the entry and
\* arrayRemoves the participant
shareUpdate(doc, uid, role) ==
    LET others == SelectSeq(doc.participant_uids, LAMBDA u : u # uid)
        members == [u \in (DOMAIN doc.member_uids \cup {uid}) |->
                        IF u = uid THEN role ELSE doc.member_uids[u]]
    IN  IF role = NullV
        THEN [doc EXCEPT !.member_uids = [u \in DOMAIN doc.member_uids \ {uid} |-> doc.member_uids[u]],
                         !.participant_uids = others]
        ELSE [doc EXCEPT !.member_uids = members,
                         !.participant_uids = others \o <<uid>>,
                         !.isTeamProject = TRUE]

\* the users whose membership the owner changes: the user when not the owner, and u3
ShareTargets == {"u3"} \cup (IF store["p1"].owner_uid = user THEN {} ELSE {user})

\* the owner of the project (the user or u2) invites a user, changes a role or removes a user
ShareChange ==
    /\ fuel > 0
    /\ "p1" \in DOMAIN store
    /\ \E uid \in ShareTargets, role \in {"visitor", NullV} :
        /\ shareUpdate(store["p1"], uid, role) # store["p1"]
        /\ store' = [store EXCEPT !["p1"] = shareUpdate(@, uid, role)]
        /\ log' = Append(log, OpShare(uid, role))
        /\ fuel' = fuel - 1
        /\ UNCHANGED <<projects, activeProjectId, history, nextId, pushed, pre, pureVars,
                       projVars>>

NextRole ==
    \/ DeliverSnapshot
    \/ RoleAdd
    \/ RoleRemove
    \/ RoleCopy
    \/ RoleAssign
    \/ RoleToggle
    \/ RoleLayoutChange
    \/ RoleChildrenLayout
    \/ RoleDragStop
    \/ RoleResizeStop
    \/ RoleUndo
    \/ ShareChange

SpecRole == InitRole /\ [][NextRole]_vars

\* the step is a LayoutChange: the grid reported the entry of a widget one row taller
LayoutChangeStep == log' # log /\ Last(log').op = "resize"

\* the height the reported layout gives widget id, as a set (empty: no entry)
reportedH(layout, id) == {layout[k].h : k \in {j \in DOMAIN layout : layout[j].i = id}}

\* C31: LayoutChange by an owner, editor or manager stores the sanitized layouts it received
\* and sets expandedH of every expanded folder of the reported layout to its height there;
\* collapsed folders, folders outside the reported layout and all other widgets are
\* written back as they were; in any other role nothing is written
C31_LayoutChangeFrame ==
    [][LayoutChangeStep =>
        LET o == Last(log')
            before == activeProject(Cur)
            all == resizedLayouts(before, o.bp, o.id)
            after == store'[activeProjectId]
        IN  IF currentUserRole(Cur) \in {"owner", "editor", "manager"}
            THEN /\ after.layouts = cleanAllLayouts(all)
                 /\ Len(after.widgets) = Len(before.widgets)
                 /\ \A k \in DOMAIN before.widgets :
                        LET w0 == before.widgets[k]
                            w1 == after.widgets[k]
                            hs == reportedH(all[o.bp], w0.id)
                        IN  IF w0.type = "folder" /\ ~isCollapsedOf(w0.data) /\ hs # {}
                            THEN /\ {w1.data.expandedH} = hs
                                 /\ [w1 EXCEPT !.data = w0.data] = w0
                                 /\ \A f \in DOMAIN w0.data \ {"expandedH"} :
                                        f \in DOMAIN w1.data /\ w1.data[f] = w0.data[f]
                                 /\ DOMAIN w1.data = DOMAIN w0.data \cup {"expandedH"}
                            ELSE w1 = w0
            ELSE store' = store /\ history' = history]_vars

\* a manager collapsed the inner folder and then made the outer, expanded folder one row
\* taller: the stored expandedH of the outer folder is its new height
C31_Witness ==
    /\ log # <<>> /\ Last(log).op = "resize"
    /\ activeProjectId \in DOMAIN store
    /\ store[activeProjectId].member_uids = [u \in {user} |-> "manager"]
    /\ LET P == store[activeProjectId]
           w == widgetById(P, Last(log).id)
       IN  /\ w.type = "folder" /\ ~isCollapsedOf(w.data)
           /\ {w.data.expandedH} = RowSpans(P, w.id, Last(log).bp)
           /\ \E bp \in BPSet : w.data.expandedH \notin RowSpans(P, w.id, bp)
           /\ \E k \in DOMAIN P.widgets :
                P.widgets[k].type = "folder" /\ isCollapsedOf(P.widgets[k].data)

\* the step is an Undo that completed: it popped an entry
UndoneStep == log' # log /\ Last(log').op = "undo" /\ history' # history

AccessFields == {"owner_uid", "member_uids", "participant_uids", "isTeamProject"}

\* C36: after Undo completes, the owner, the member-role map, the participant list and
\* the team flag of the remote project are those of the popped snapshot, whatever
\* membership changes were committed after the snapshot was taken
C36_UndoRestoresAccess ==
    [][UndoneStep =>
        LET popped == history[lastRelevantIndex(Cur)].projectState
            after == store'[activeProjectId]
        IN  \A f \in AccessFields : after[f] = popped[f]]_vars

\* the user, an editor, added a widget; the owner then invited u3; the Undo of the user
\* took u3 out of the member map and of the participant list again
C36_Witness ==
    /\ Len(log) >= 3
    /\ Last(log).op = "undo"
    /\ log[Len(log) - 1].op = "share" /\ log[Len(log) - 1].uid = "u3"
    /\ log[Len(log) - 1].role # NullV
    /\ log[Len(log) - 2].op \in Mutations
    /\ activeProjectId \in DOMAIN store
    /\ store[activeProjectId].member_uids = [u \in {user} |-> "editor"]
    /\ store[activeProjectId].participant_uids = <<"u2", user>>
    /\ Len(history) < Len(pushed)


WidgetOps ==
    {"add", "remove", "copy", "assign", "toggle", "resize", "recompute", "dragstop",
     "resizestop", "undo"}

\* C37: while the role of the user on the active project is visitor or absent, no widget
\* operation writes to the store or pushes a history entry
C37_VisitorWritesNothing ==
    [][(/\ log' # log
        /\ Last(log').op \in WidgetOps
        /\ currentUserRole(Cur) \in {"visitor", NullV})
            => store' = store /\ history' = history]_vars


(***************************************************************************)
(* Specification SpecUndo: handleUndo as the steps it takes, the second    *)
(* click arriving while the updateDoc of the first has not settled         *)
(***************************************************************************)
MaxUndoCalls == 3

\* handleUndo up to its await: the entry the callback finds in the history it was
\* rendered with, kept by its position k (the object identity of lastRelevantState)
undoCall(S) ==
    LET k == lastRelevantIndex(S) IN
    [ projectId |-> S.activeProjectId, k |-> k,
      projectState |-> S.history[k].projectState, stage |-> "sent" ]

without1(seq, i) == SubSeq(seq, 1, i - 1) \o SubSeq(seq, i + 1, Len(seq))

\* mutant of undoSettled: the entry is removed also when the write was rejected
undoSettledAlways(h, c, ok) == IF c.k > 0 THEN without1(h, c.k) ELSE h

\* handleUndo after its await, on history h: a rejected updateDoc throws and the rest is
\* skipped; otherwise setHistory(prev => prev.filter(h => h !== lastRelevantState)), which
\* removes nothing when the entry is no longer in the list (k = 0)
undoSettled(h, c, ok) == IF ok /\ c.k > 0 THEN without1(h, c.k) ELSE h

\* the positions the other calls' entries have after the entry at position k was removed
afterRemoval(cs, k) ==
    [j \in DOMAIN cs |->
        [cs[j] EXCEPT !.k = IF k = 0 THEN @ ELSE IF @ = k THEN 0 ELSE IF @ > k THEN @ - 1 ELSE @]]

InitUndo ==
    \E sd \in {SeedFolder, SeedNested, SeedTwoProjects} :
        /\ IsState(runFrom(SeedBase(sd), sd, 1))
        /\ log = sd
        /\ fuel = MaxUndoCalls
        /\ pre = <<>>
        /\ PureIdle
        /\ ProjIdle

OpUndoCall(k) == [op |-> "undocall", k |-> k]
OpUndoFail(k) == [op |-> "undofail", k |-> k]

\* the header button: enabled while canUndo, whether or not a call is in flight
UndoInvoke ==
    /\ fuel > 0
    /\ Len(history) > 0 /\ activeProjectId # NullV
    /\ lastRelevantIndex(Cur) > 0
    /\ isEditableOverall(Cur)
    /\ calls' = Append(calls, undoCall(Cur))
    /\ log' = Append(log, OpUndoCall(lastRelevantIndex(Cur)))
    /\ fuel' = fuel - 1
    /\ UNCHANGED <<appVars, pre, pureVars, tabs, signup, created>>

\* the server applies the updateDoc of call i
UndoCommit ==
    \E i \in DOMAIN calls :
        /\ calls[i].stage = "sent"
        /\ calls[i].projectId \in DOMAIN store
        /\ store' = updateDoc(Cur, calls[i].projectId, calls[i].projectState).store
        /\ calls' = [calls EXCEPT ![i].stage = "acked"]
        /\ UNCHANGED <<projects, activeProjectId, history, nextId, pushed, ghostVars, pureVars,
                       tabs, signup, created>>

\* the updateDoc of call i is rejected (the document is gone, or the backend refuses):
\* the await throws
UndoReject ==
    \E i \in DOMAIN calls :
        /\ calls[i].stage = "sent"
        /\ history' = undoSettled(history, calls[i], FALSE)
        /\ calls' = without1(calls, i)
        /\ log' = Append(log, OpUndoFail(calls[i].k))
        /\ UNCHANGED <<store, projects, activeProjectId, nextId, pushed, fuel, pre, pureVars,
                       tabs, signup, created>>

\* the await of call i returns: setHistory filters the entry out
UndoSettle ==
    \E i \in DOMAIN calls :
        /\ calls[i].stage = "acked"
        /\ history' = undoSettled(history, calls[i], TRUE)
        /\ calls' = afterRemoval(without1(calls, i), calls[i].k)
        /\ log' = Append(log, OpUndo)
        /\ UNCHANGED <<store, projects, activeProjectId, nextId, pushed, fuel, pre, pureVars,
                       tabs, signup, created>>

NextUndo ==
    \/ UndoInvoke
    \/ UndoCommit
    \/ UndoReject
    \/ UndoSettle
    \/ DeliverSnapshot

SpecUndo == InitUndo /\ [][NextUndo]_vars

\* C34: each completed Undo removes exactly one history entry, and an Undo invoked while
\* the write of another is in flight restores a different entry than the one in flight
C34_OneUndoPerEntry ==
    [][/\ (log' # log /\ Last(log').op = "undo") => Len(history') = Len(history) - 1
       /\ (log' # log /\ Last(log').op = "undocall") =>
                \A i \in DOMAIN calls : calls[i].k # Last(calls').k]_vars

\* the step is an Undo whose write was rejected
UndoFailedStep == log' # log /\ Last(log').op = "undofail"

\* C35: when the write of an Undo fails, the history stack is unchanged, and the entry
\* a later Undo finds is the same one
C35_FailedUndoKeepsEntry ==
    [][UndoFailedStep =>
        /\ history' = history
        /\ Last(log').k > 0 => lastRelevantIndex([Cur EXCEPT !.history = history']) = Last(log').k]_vars

\* the write of an Undo was rejected, the next Undo picked the same entry, was written and
\* removed it
C35_Witness ==
    /\ Len(log) >= 4
    /\ log[Len(log) - 3].op = "undocall"
    /\ log[Len(log) - 2].op = "undofail"
    /\ log[Len(log) - 1].op = "undocall"
    /\ Last(log).op = "undo"
    /\ log[Len(log) - 1].k = log[Len(log) - 3].k
    /\ log[Len(log) - 2].k = log[Len(log) - 3].k
    /\ Len(history) = Len(pushed) - 1
    /\ calls = <<>>

(***************************************************************************)
(* Specification SpecCopyProject: the sidebar copies a project of the list *)
(***************************************************************************)
MaxCopyOps == 2

\* the template string of the new name: a prefix ("copy of") before projectToCopy.name
copyName(name) == IF name = "project" THEN "copy of project" ELSE "copy of another"

\* the id addDoc gives the copy: the documents of this specification are p1, p2, ...
copyProjectId(S) == ProjectIds[Cardinality(DOMAIN S.store) + 1]

\* idMap after the first forEach: old id -> new id, the k-th widget getting the k-th uuid
idMapOf(widgets, firstNew) ==
    [o \in {widgets[k].id : k \in DOMAIN widgets} |->
        WidgetIds[firstNew - 1 + CHOOSE k \in DOMAIN widgets :
                        widgets[k].id = o /\ \A j \in DOMAIN widgets : widgets[j].id = o => j <= k]]

handleCopyProject(S, id) ==
    LET S1 == pushStateToHistory(S)
        idx == {k \in DOMAIN S.projects : S.projects[k].id = id}
        projectToCopy == S.projects[CHOOSE k \in idx : \A j \in idx : k <= j]
        cloned == safeDeepClone(projectToCopy)
        idMap == idMapOf(cloned.widgets, S.nextId)
        renamed == [k \in DOMAIN cloned.widgets |->
                        [cloned.widgets[k] EXCEPT !.id = WidgetIds[S.nextId - 1 + k]]]
        newWidgets ==
            [k \in DOMAIN renamed |->
                LET w1 == renamed[k]
                    w2 == IF Has(w1, "parentId") /\ TruthyStr(w1.parentId)
                          THEN [w1 EXCEPT !.parentId = mapId(idMap, @)] ELSE w1
                    w3 == IF w2.type = "folder" /\ Has(w2.data, "childrenLayouts")
                          THEN [w2 EXCEPT !.data.childrenLayouts = remapLayouts(idMap, @)]
                          ELSE w2
                IN  IF w3.type = "line"
                    THEN [w3 EXCEPT !.data.deps = [j \in DOMAIN @ |-> mapId(idMap, @[j])]]
                    ELSE w3]
        newProject ==
            [cloned EXCEPT !.name = copyName(projectToCopy.name),
                           !.owner_uid = user,
                           !.member_uids = Empty,
                           !.participant_uids = <<user>>,
                           !.isTeamProject = FALSE,
                           !.widgets = newWidgets,
                           !.layouts = remapLayouts(idMap, cloned.layouts)]
        newId == copyProjectId(S)
        S2 == [S1 EXCEPT !.store = addDoc(S.store, newId, newProject),
                         !.nextId = @ + Len(cloned.widgets)]
    IN  IF idx = {} THEN S1
        ELSE IF cloned = NullProject THEN S1
        ELSE manageActiveProject(selectProject(S2, newId))

OpCopyProject(id) == [op |-> "copyproject", id |-> id]

InitCopyProject ==
    \E sd \in Seeds :
        /\ IsState(runFrom(SeedBase(sd), sd, 1))
        /\ log = sd
        /\ fuel = MaxCopyOps
        /\ pre = <<>>
        /\ PureIdle
        /\ ProjIdle

\* the project menu of the sidebar offers "copy" on every project of the list
CopyProject ==
    /\ Ready
    /\ Cardinality(DOMAIN store) < Len(ProjectIds)
    /\ \E k \in DOMAIN projects :
        /\ nextId + Len(projects[k].widgets) - 1 <= Len(WidgetIds)
        /\ Do(handleCopyProject(Cur, projects[k].id), OpCopyProject(projects[k].id))

CopyProjectRemove ==
    Ready /\ \E id \in LocalIds : Do(handleRemoveWidget(Cur, id), OpRemove(id))

CopyProjectSelect ==
    /\ Ready
    /\ \E k \in DOMAIN projects :
        /\ projects[k].id # activeProjectId
        /\ Do(selectProject(Cur, projects[k].id), OpSelect(projects[k].id))

NextCopyProject ==
    \/ DeliverSnapshot
    \/ CopyProject
    \/ CopyProjectRemove
    \/ CopyProjectSelect

SpecCopyProject == InitCopyProject /\ [][NextCopyProject]_vars

\* the step is a project copy that created a document
ProjectCopiedStep ==
    log' # log /\ Last(log').op = "copyproject" /\ DOMAIN store' # DOMAIN store

\* ids a chart of P reads
DepIds(P) ==
    UNION {{P.widgets[k].data.deps[j] : j \in DOMAIN P.widgets[k].data.deps} :
                k \in {i \in DOMAIN P.widgets : P.widgets[i].type = "line"}}

\* C39: copying a project creates a project owned by the user, with an empty member map
\* and the user as only participant, whose widget ids are fresh and whose parentIds,
\* nested-layout ids, top-level layout ids and chart dependencies all name widgets of
\* the new project; the documents that were there stay as they were
C39_ProjectCopyIsClosed ==
    [][ProjectCopiedStep =>
        LET new == CHOOSE id \in DOMAIN store' : id \notin DOMAIN store
            N == store'[new]
            oldIds == UNION {Ids(store[p]) : p \in DOMAIN store}
        IN  /\ DOMAIN store' = DOMAIN store \cup {new}
            /\ \A p \in DOMAIN store : store'[p] = store[p]
            /\ N.owner_uid = user /\ N.member_uids = Empty /\ N.participant_uids = <<user>>
            /\ Ids(N) \cap oldIds = {}
            /\ Cardinality(Ids(N)) = Len(N.widgets)
            /\ \A k \in DOMAIN N.widgets :
                    Has(N.widgets[k], "parentId") => N.widgets[k].parentId \in Ids(N)
            /\ NestedIds(N) \subseteq Ids(N)
            /\ \A bp \in DOMAIN N.layouts : LayoutIds(N.layouts[bp]) \subseteq Ids(N)
            /\ DepIds(N) \subseteq Ids(N)]_vars

====
